---- MODULE Spec2Model ----
(***************************************************************************)
(* A model of the product-entity collectors of blog-automation:            *)
(*   scripts/entity_first_collector.py  (main and its text helpers)        *)
(*   scripts/live_collect.py            (build_items, coarse_fallback_items*)
(*                                       and main's refill step)           *)
(*                                                                         *)
(* Text is a sequence of characters, each character a one-element string.  *)
(* TLA+ strings are ASCII, so a Hangul syllable is written as one          *)
(* character named "k_<romanisation>": "k_sam","k_seong" is the brand      *)
(* written with the two syllables U+C0BC U+C131 (Samsung).                 *)
(* Numbers with one decimal (scores) are kept in tenths, weights with      *)
(* three decimals (live_collect counts) in thousandths.                    *)
(***************************************************************************)
EXTENDS Integers, Sequences, FiniteSets, TLC

(***************************************************************************)
(* Characters                                                              *)
(***************************************************************************)
UpperSeq == <<"A","B","C","D","E","F","G","H","I","J","K","L","M",
              "N","O","P","Q","R","S","T","U","V","W","X","Y","Z">>
LowerSeq == <<"a","b","c","d","e","f","g","h","i","j","k","l","m",
              "n","o","p","q","r","s","t","u","v","w","x","y","z">>
Upper == {UpperSeq[i] : i \in 1..26}
Lower == {LowerSeq[i] : i \in 1..26}
Digit == {"0","1","2","3","4","5","6","7","8","9"}
\* The characters of the model that are neither letters nor digits.
\* "^H" is the backspace character U+0008.
Punct ==
  {" ", "-", "+", "_", "<", ">", "/", "[", "]", "(", ")", "|", "!", ",", ".",
   "^H"}
\* Every other character is a Hangul syllable (U+AC00..U+D7A3), "k_...".
IsHangul(c) == c \notin Upper \cup Lower \cup Digit \cup Punct

\* str.isalpha / str.isdigit / str.isspace per character, and the regex
\* class \w (Unicode letters, digits and the underscore).
IsAlpha(c) == c \in Upper \cup Lower \/ IsHangul(c)
IsDigit(c) == c \in Digit
IsSpace(c) == c = " "
IsWord(c) == IsAlpha(c) \/ IsDigit(c) \/ c = "_"

(***************************************************************************)
(* Strings                                                                 *)
(***************************************************************************)
Min(a, b) == IF a <= b THEN a ELSE b
Max(a, b) == IF a >= b THEN a ELSE b

\* s[i:j] of Python with 0-based i, j already clipped: characters i+1..j.
Slice(s, i, j) == IF j <= i THEN <<>> ELSE SubSeq(s, i + 1, j)

\* s[:n]
Take(s, n) == Slice(s, 0, Min(Max(n, 0), Len(s)))

\* w occurs in t at 1-based position i
OccursAt(w, t, i) ==
  /\ i >= 1
  /\ i + Len(w) - 1 <= Len(t)
  /\ \A j \in 1..Len(w) : t[i + j - 1] = w[j]

\* Python's  w in t  for strings (the empty string occurs in every string)
In(w, t) == \E i \in 1..(Len(t) + 1) : OccursAt(w, t, i)

\* str.upper
ToUpperChar(c) ==
  IF c \in Lower THEN UpperSeq[CHOOSE i \in 1..26 : LowerSeq[i] = c] ELSE c
ToUpper(s) == [i \in 1..Len(s) |-> ToUpperChar(s[i])]

\* str.lower
ToLowerChar(c) ==
  IF c \in Upper THEN LowerSeq[CHOOSE i \in 1..26 : UpperSeq[i] = c] ELSE c
ToLower(s) == [i \in 1..Len(s) |-> ToLowerChar(s[i])]

\* str.strip: leading and trailing whitespace removed
RECURSIVE LStrip(_)
LStrip(s) == IF s # <<>> /\ IsSpace(s[1]) THEN LStrip(Tail(s)) ELSE s
RECURSIVE RStrip(_)
RStrip(s) ==
  IF s # <<>> /\ IsSpace(s[Len(s)]) THEN RStrip(SubSeq(s, 1, Len(s) - 1)) ELSE s
Strip(s) == LStrip(RStrip(s))

\* str.isdigit: non-empty and every character a digit
StrIsDigit(s) == s # <<>> /\ \A i \in 1..Len(s) : IsDigit(s[i])

(***************************************************************************)
(* Regular-expression pieces (re.search: the leftmost match, and at that   *)
(* start the first success of greedy matching with backtracking).          *)
(***************************************************************************)
\* the n characters of t from position i are all in class S
AllIn(t, i, n, S) ==
  /\ i >= 1
  /\ i + n - 1 <= Len(t)
  /\ \A j \in i..(i + n - 1) : t[j] \in S

\* \b between positions p and p+1 (p in 0..Len(t))
WordAt(t, p) == p >= 1 /\ p <= Len(t) /\ IsWord(t[p])
WordBoundary(t, p) == WordAt(t, p) # WordAt(t, p + 1)

\* The greedy choice among the successful repetition counts: the first
\* quantifier as long as possible, then the second, then the third.
Greedy(cands) ==
  CHOOSE c \in cands :
    \A d \in cands :
      \/ c[1] > d[1]
      \/ c[1] = d[1] /\ c[2] > d[2]
      \/ c[1] = d[1] /\ c[2] = d[2] /\ c[3] >= d[3]

\* the least start position with a match, 0 when there is none
Leftmost(t, Cands(_, _)) ==
  IF \E i \in 1..Len(t) : Cands(t, i) # {}
  THEN CHOOSE i \in 1..Len(t) :
         Cands(t, i) # {} /\ \A j \in 1..(i - 1) : Cands(t, j) = {}
  ELSE 0

\* re.search(...).group(0), <<>> when there is no match (no pattern of the
\* program matches the empty string)
Search(t, Cands(_, _)) ==
  LET i == Leftmost(t, Cands) IN
  IF i = 0 THEN <<>>
  ELSE LET c == Greedy(Cands(t, i)) IN SubSeq(t, i, i + c[1] + c[2] + c[3] - 1)

(***************************************************************************)
(* entity_first_collector.py: lexicons                                     *)
(***************************************************************************)
BRANDS ==
  << <<"k_sam","k_seong">>, <<"L","G">>, <<"k_ae","k_peul">>,
     <<"k_sya","k_o","k_mi">>, <<"k_da","k_i","k_seun">>,
     <<"k_ro","k_bo","k_rag">>, <<"k_ku","k_ku">>, <<"k_ku","k_chen">>,
     <<"k_beu","k_ri","k_ta">>, <<"k_pil","k_rib","k_seu">>,
     <<"k_he","k_ra">>, <<"k_ra","k_ne","k_jeu">>,
     <<"k_seol","k_hwa","k_su">>, <<"k_dag","k_teo","k_ji">> >>
NOISE ==
  { <<"k_nyu","k_seu">>, <<"k_sog","k_bo">>, <<"k_jeong","k_chi">>,
    <<"k_dae","k_seon">>, <<"k_gug","k_hoe">>, <<"k_jeong","k_bu">>,
    <<"k_il","k_bo">>, <<"k_sin","k_mun">>, <<"k_gi","k_ja">>,
    <<"k_gong","k_gae">>, <<"k_bal","k_pyo">> }
MODEL_STOP ==
  { <<"B","E","S","P","O","K","E">>, <<"C","U","C","K","O","O">>,
    <<"S","A","M","S","U","N","G">>, <<"L","G">>, <<"A","P","P","L","E">>,
    <<"X","I","A","O","M","I">>, <<"D","Y","S","O","N">>,
    <<"R","O","B","O","R","O","C","K">> }
MODEL_BLACKLIST ==
  { <<"2","9","C","M">>, <<"W","C","O","N","C","E","P","T">>,
    <<"M","U","S","I","N","S","A">>,
    <<"O","L","I","V","E","Y","O","U","N","G">>, <<"N","A","V","E","R">>,
    <<"C","O","U","P","A","N","G">> }
BEAUTY_LINE_HINTS ==
  { <<"k_ku","k_syeon">>, <<"k_pa","k_un","k_de","k_i","k_syeon">>,
    <<"k_rib">>, <<"k_tin","k_teu">>, <<"k_seon","k_keu","k_rim">>,
    <<"k_e","k_sen","k_seu">>, <<"k_aem","k_peul">>, <<"k_se","k_reom">>,
    <<"k_keu","k_rim">>, <<"k_ma","k_seu","k_keu","k_paeg">> }
\* the cushion line names normalize_beauty_model tries, in its order
BEAUTY_LINE_KEYS ==
  << <<"k_beul","k_raeg","k_ku","k_syeon">>,
     <<"B","L","A","C","K","C","U","S","H","I","O","N">>,
     <<"k_ri","k_peul","k_reg","k_syeon">>, <<"G","L","O","W">> >>

(***************************************************************************)
(* entity_first_collector.py: text helpers                                 *)
(***************************************************************************)
\* re.sub(r'<[^>]+>', '', s): every leftmost "<", one or more characters
\* other than ">", ">" is removed.
RECURSIVE RemoveTags(_)
RemoveTags(s) ==
  IF s = <<>> THEN <<>>
  ELSE IF s[1] = "<" /\ \E j \in 3..Len(s) : s[j] = ">"
                                     /\ \A i \in 2..(j - 1) : s[i] # ">"
       THEN LET j == CHOOSE j \in 3..Len(s) :
                       s[j] = ">" /\ \A i \in 2..(j - 1) : s[i] # ">"
            IN RemoveTags(SubSeq(s, j + 1, Len(s)))
       ELSE <<s[1]>> \o RemoveTags(Tail(s))

\* html.unescape leaves a text without "&" as it is; the model's alphabet
\* (Punct) has no "&".
strip_tags(s) == Strip(RemoveTags(s))

\* re.sub(r'\s+', ' ', s)
RECURSIVE CollapseSpaces(_)
CollapseSpaces(s) ==
  IF s = <<>> THEN <<>>
  ELSE IF IsSpace(s[1])
       THEN <<" ">> \o CollapseSpaces(LStrip(Tail(s)))
       ELSE <<s[1]>> \o CollapseSpaces(Tail(s))

\* [0-9A-Za-z가-힣\s\-\+]
NormalizeKeeps(c) ==
  IsDigit(c) \/ c \in Upper \cup Lower \/ IsHangul(c) \/ IsSpace(c)
  \/ c = "-" \/ c = "+"

normalize(s) ==
  LET Blanked(s1) ==
        [i \in 1..Len(s1) |-> IF NormalizeKeeps(s1[i]) THEN s1[i] ELSE " "]
  IN Strip(CollapseSpaces(Blanked(strip_tags(s))))

\* the first brand of BRANDS, in list order, that occurs in the text
detect_brand(text) ==
  LET FirstIn(t) ==
        IF \E i \in 1..Len(BRANDS) : In(BRANDS[i], t)
        THEN BRANDS[CHOOSE i \in 1..Len(BRANDS) :
                      In(BRANDS[i], t) /\ \A j \in 1..(i - 1) : ~In(BRANDS[j], t)]
        ELSE <<>>
  IN FirstIn(normalize(text))

\* \b[A-Z]{1,4}\-?[A-Z0-9]{2,8}\b
Pattern1(t, i) ==
  {c \in (1..4) \X {0, 1} \X (2..8) :
     /\ WordBoundary(t, i - 1)
     /\ AllIn(t, i, c[1], Upper)
     /\ (c[2] = 1 => AllIn(t, i + c[1], 1, {"-"}))
     /\ AllIn(t, i + c[1] + c[2], c[3], Upper \cup Digit)
     /\ WordBoundary(t, i + c[1] + c[2] + c[3] - 1)}

\* \b[A-Z]{1,3}\d{2,5}[A-Z0-9\-\+]*\b
Pattern2(t, i) ==
  {c \in (1..3) \X (2..5) \X (0..Len(t)) :
     /\ WordBoundary(t, i - 1)
     /\ AllIn(t, i, c[1], Upper)
     /\ AllIn(t, i + c[1], c[2], Digit)
     /\ (c[3] > 0 => AllIn(t, i + c[1] + c[2], c[3],
                           Upper \cup Digit \cup {"-", "+"}))
     /\ WordBoundary(t, i + c[1] + c[2] + c[3] - 1)}

\* \b\d{2,4}[A-Z]{1,3}\b
Pattern3(t, i) ==
  {c \in (2..4) \X (1..3) \X {0} :
     /\ WordBoundary(t, i - 1)
     /\ AllIn(t, i, c[1], Digit)
     /\ AllIn(t, i + c[1], c[2], Upper)
     /\ WordBoundary(t, i + c[1] + c[2] - 1)}

\* a match is returned when it has 3 or more characters and is not
\* 'news' or 'live' in lower case
ModelTokenOk(x) ==
  /\ x # <<>>
  /\ Len(x) >= 3
  /\ ToLower(x) \notin {<<"n","e","w","s">>, <<"l","i","v","e">>}

extract_model(text) ==
  LET Rule3(x3) == IF ModelTokenOk(x3) THEN x3 ELSE <<>>
      Rule2(t, x2) == IF ModelTokenOk(x2) THEN x2
                      ELSE Rule3(Search(t, Pattern3))
      Rule1(t, x1) == IF ModelTokenOk(x1) THEN x1
                      ELSE Rule2(t, Search(t, Pattern2))
      Rules(t) == Rule1(t, Search(t, Pattern1))
  IN Rules(normalize(text))

\* f"{brand}|{model}" if brand and model else ''
\* entity_key without the separator
entity_key_joined(brand, model) ==
  IF brand # <<>> /\ model # <<>> THEN brand \o model ELSE <<>>

entity_key(brand, model) ==
  IF brand # <<>> /\ model # <<>> THEN brand \o <<"|">> \o model ELSE <<>>

\* k.split('|', 1) of a key that holds a "|": the parts before and after
\* the first one
HasBar(k) == \E i \in 1..Len(k) : k[i] = "|"
SplitKey(k) ==
  LET i == CHOOSE i \in 1..Len(k) :
             k[i] = "|" /\ \A j \in 1..(i - 1) : k[j] # "|"
  IN <<SubSeq(k, 1, i - 1), SubSeq(k, i + 1, Len(k))>>

\* The two patterns of normalize_beauty_model hold a literal backspace
\* character (U+0008) where a \b was meant: the source line is
\*   re.search(r'^H(\d{2}[NC]\d)^H', t)   with ^H the character U+0008.
ShadePattern(t, i) ==
  {c \in {1} \X {4} \X {1} :
     /\ AllIn(t, i, 1, {"^H"})
     /\ AllIn(t, i + 1, 2, Digit)
     /\ AllIn(t, i + 3, 1, {"N", "C"})
     /\ AllIn(t, i + 4, 1, Digit)
     /\ AllIn(t, i + 5, 1, {"^H"})}

\* ^HSPF\s?\d{2}^H  (^H the character U+0008)
SpfPattern(t, i) ==
  {c \in {4} \X {0, 1} \X {3} :
     /\ OccursAt(<<"^H","S","P","F">>, t, i)
     /\ (c[2] = 1 => AllIn(t, i + 4, 1, {" "}))
     /\ AllIn(t, i + 4 + c[2], 2, Digit)
     /\ AllIn(t, i + 6 + c[2], 1, {"^H"})}

normalize_beauty_model(text) ==
  LET Line(t) ==
        IF \E i \in 1..Len(BEAUTY_LINE_KEYS) : In(BEAUTY_LINE_KEYS[i], t)
        THEN BEAUTY_LINE_KEYS[CHOOSE i \in 1..Len(BEAUTY_LINE_KEYS) :
               /\ In(BEAUTY_LINE_KEYS[i], t)
               /\ \A j \in 1..(i - 1) : ~In(BEAUTY_LINE_KEYS[j], t)]
        ELSE <<>>
      Spf(t, m2) == IF m2 # <<>> THEN SelectSeq(m2, LAMBDA c : c # " ")
                    ELSE Line(t)
      Shade(t, m1) == IF m1 # <<>> THEN SubSeq(m1, 2, 5)
                      ELSE Spf(t, Search(t, SpfPattern))
      Upper1(t) == Shade(t, Search(t, ShadePattern))
  IN Upper1(ToUpper(normalize(text)))

normalize_model(model, brand) ==
  LET Kept(m, b) ==
        IF m = <<>> THEN <<>>
        ELSE IF m \in MODEL_STOP \/ m \in MODEL_BLACKLIST THEN <<>>
        ELSE IF m = b THEN <<>>
        ELSE IF Len(m) >= 2 /\ Len(m) <= 6 /\ \A i \in 1..Len(m) : m[i] \in Upper
             THEN <<>>
        ELSE IF m \in {<<"P","R","O">>, <<"M","A","X">>,
                       <<"U","L","T","R","A">>, <<"A","I","R">>} THEN <<>>
        ELSE m
  IN Kept(ToUpper(Strip(model)), ToUpper(Strip(brand)))

\* model_quality without the test for a digit
model_quality_any(model) == IF model = <<>> THEN 0 ELSE 9

\* in tenths: 0.9 -> 9, 0.6 -> 6, 0.3 -> 3
model_quality(model) ==
  LET has_alpha == \E i \in 1..Len(model) : IsAlpha(model[i])
      has_digit == \E i \in 1..Len(model) : IsDigit(model[i])
  IN IF model = <<>> THEN 0
     ELSE IF has_alpha /\ has_digit THEN 9
     ELSE IF has_digit /\ Len(model) >= 4 THEN 6
     ELSE 3

\* valid_entity without the test  model == brand.upper()
valid_entity_brand_ok(brand, model) ==
  IF brand = <<>> \/ model = <<>> THEN FALSE
  ELSE IF \E n \in NOISE : In(n, brand) THEN FALSE
  ELSE IF \E n \in NOISE : In(n, model) THEN FALSE
  ELSE IF StrIsDigit(model) THEN FALSE
  ELSE IF model \in MODEL_STOP \/ model \in MODEL_BLACKLIST THEN FALSE
  ELSE IF model_quality(model) * 10 < 55 THEN FALSE
  ELSE TRUE

\* valid_entity with  return True  for an empty brand or model
valid_entity_empty_ok(brand, model) ==
  IF brand = <<>> \/ model = <<>> THEN TRUE
  ELSE IF \E n \in NOISE : In(n, brand) THEN FALSE
  ELSE IF \E n \in NOISE : In(n, model) THEN FALSE
  ELSE IF StrIsDigit(model) THEN FALSE
  ELSE IF model \in MODEL_STOP \/ model \in MODEL_BLACKLIST THEN FALSE
  ELSE IF model = ToUpper(brand) THEN FALSE
  ELSE IF model_quality(model) * 10 < 55 THEN FALSE
  ELSE TRUE

valid_entity(brand, model) ==
  IF brand = <<>> \/ model = <<>> THEN FALSE
  ELSE IF \E n \in NOISE : In(n, brand) THEN FALSE
  ELSE IF \E n \in NOISE : In(n, model) THEN FALSE
  ELSE IF StrIsDigit(model) THEN FALSE
  ELSE IF model \in MODEL_STOP \/ model \in MODEL_BLACKLIST THEN FALSE
  ELSE IF model = ToUpper(brand) THEN FALSE
  ELSE IF model_quality(model) * 10 < 55 THEN FALSE
  ELSE TRUE

(***************************************************************************)
(* Bounds of the model                                                     *)
(***************************************************************************)
\* rows delivered by all fetches of one run
MaxRows == 3
\* shopping categories (of the 12) and celebrity queries (of the 180) whose
\* fetch returns rows; the other fetches return the empty list
MaxCats == 1
MaxQueries == 1
\* --top-n ranges over 0..MaxTopN
MaxTopN == 2
\* rows of one key that the pools of SpecRank merge: shopping rows 1..MaxShop,
\* news rows 0..MaxNews
MaxShop == 3
MaxNews == 1
\* The cuts of entity_first_collector.main, scaled down so that a run of
\* MaxRows rows reaches them: list(pool.keys())[:40] (line 295),
\* list(obj['evidence_links'])[:6] (line 334) and reasons [:4] (line 325).
YtKeyCut == 1
EvidenceCut == 2
ReasonCut == 2
\* The cuts of live_collect, scaled down likewise: counts.most_common(200)
\* (line 598), links[name][:5] (line 624) and links[name][:3] (line 661).
MostCommonCut == 2
LinkCut == 2
CoarseLinkCut == 2

(***************************************************************************)
(* Inputs: the titles, descriptions and links a fetch may return           *)
(***************************************************************************)
T_SamsungRF85 == <<"k_sam","k_seong"," ","R","F","8","5">>
T_SamsungTagged ==
  <<"<","b",">","k_sam","k_seong","<","/","b",">"," ",
    "k_naeng","k_jang","k_go"," ","R","F","8","5">>
T_LgOled == <<"L","G"," ","O","L","E","D","5","5">>
T_DysonV12 == <<"k_da","k_i","k_seun"," ","V","1","2">>
T_Bespoke ==
  <<"k_sam","k_seong"," ","B","E","S","P","O","K","E"," ",
    "k_naeng","k_jang","k_go"," ","R","F","8","5">>
T_Politics ==
  <<"k_jeong","k_chi"," ","k_sog","k_bo"," ","k_gug","k_hoe"," ",
    "k_dae","k_seon">>
T_NoBrand == <<"R","F","8","5"," ","k_naeng","k_jang","k_go">>
T_HeraCushion == <<"k_he","k_ra"," ","k_beul","k_raeg","k_ku","k_syeon">>
T_LgGram == <<"L","G"," ","k_geu","k_raem">>

\* the titles of a run of the state machine
Titles == {T_SamsungRF85, T_SamsungTagged, T_LgOled, T_Bespoke, T_Politics}
\* every title of the model
AllTitles ==
  Titles \cup {T_DysonV12, T_NoBrand, T_HeraCushion, T_LgGram}

D_None == <<>>
D_Oled == <<"O","L","E","D","5","5"," ","k_hu","k_gi">>
D_SamsungRF85 == <<"k_sam","k_seong"," ","R","F","8","5">>
Descs == {D_None, D_Oled, D_SamsungRF85}

\* URLs are opaque to the program, which only tests them for emptiness and
\* equality: "" is a missing link, and a fetched link is one the pool holds
\* already or the first of LinkSeq it does not hold.
LinkSeq == <<"u1", "u2", "u3">>
UsedLinks(p) == UNION {p[k].evidence_links : k \in DOMAIN p}
LinkChoices(p) ==
  {""} \cup {LinkSeq[i] :
               i \in 1..Min(Len(LinkSeq), Cardinality(UsedLinks(p)) + 1)}

SHOP_CATEGORIES ==
  <<"robot_cheongsogi", "jeongsugi", "museon_ieopon", "noteubuk",
    "eeo_peuraieo", "keopi_meosin", "kusyeon", "seonkeurim", "aempeul",
    "peurotin", "bitamin", "yusangyun">>
CELEB_SEEDS ==
  <<"gimjanghun", "aiyu", "jangwonyeong", "karina", "anyujin", "hansohui",
    "bakboyeong", "yujaeseok", "gian84", "dekseu">>
PRODUCT_TERMS ==
  <<"hwajangpum", "kusyeon", "rip", "hyangsu", "seonkeurim", "aempeul",
    "maseukeupaek", "seukinkeeo", "sayongtem", "aeyongtem", "pauchi",
    "watcheuinmaibaek", "danbaekjil", "yeongyangje", "jeongsugi",
    "cheongsogi", "jubangtem", "saenghwalyongpum">>

\* the (celeb, term) of the q-th query of step 2.5, q from 1
CelebQuery(q) ==
  <<CELEB_SEEDS[((q - 1) \div Len(PRODUCT_TERMS)) + 1],
    PRODUCT_TERMS[((q - 1) % Len(PRODUCT_TERMS)) + 1]>>

(***************************************************************************)
(* entity_first_collector.main: the pool and its merge steps               *)
(***************************************************************************)
\* source_mix is a defaultdict(int): a mapping from the sources counted so
\* far; kept as a function whose domain is those sources
EmptyMix == [s \in {} |-> 0]

\* the value the defaultdict builds for a key it does not hold
\* (evidence_briefs, which no emitted field but itself reads, is left out)
DefaultRecord ==
  [brand |-> <<>>, model_name |-> <<>>, canonical_product_name |-> <<>>,
   mention_count_24h |-> 0, source_mix |-> EmptyMix,
   evidence_links |-> {}, issue_reasons |-> <<>>]

IncMix(mix, src) ==
  [s \in (DOMAIN mix) \cup {src} |->
     (IF s \in DOMAIN mix THEN mix[s] ELSE 0) + (IF s = src THEN 1 ELSE 0)]

\* obj = pool[k]: a missing key is inserted, last in iteration order
Touch(P, k) ==
  IF k \in DOMAIN P.pool THEN P
  ELSE [pool |-> [x \in (DOMAIN P.pool) \cup {k} |->
                    IF x = k THEN DefaultRecord ELSE P.pool[x]],
        order |-> Append(P.order, k)]

\* AddLink without  if link
AddLinkAlways(links, link) == links \cup {link}

\* if link: obj['evidence_links'].add(link)
AddLink(links, link) == IF link # "" THEN links \cup {link} ELSE links

\* brand and model of a shopping title (lines 214-218)
ShopCandidate(rawtitle) ==
  LET Fields(title, brand, model) ==
        [title |-> title, brand |-> brand, model |-> model]
      Model(title, brand, m0) ==
        Fields(title, brand,
               IF m0 = <<>> /\ \E h \in BEAUTY_LINE_HINTS : In(h, title)
               THEN normalize_beauty_model(title) ELSE m0)
      Brand(title, brand) ==
        Model(title, brand, normalize_model(extract_model(title), brand))
      Title(title) == Brand(title, detect_brand(title))
  IN Title(strip_tags(rawtitle))

\* ShopCandidate over the titles of the model, evaluated once
ShopCandidateOf == [t \in AllTitles |-> ShopCandidate(t)] @@ <<>>

\* lines 223-228: the writes to obj = pool[k] for the candidate c of the
\* item it
ShopPut(P1, k, c, it) ==
  [P1 EXCEPT !.pool[k] =
     [@ EXCEPT !.brand = c.brand,
               !.model_name = c.model,
               !.canonical_product_name = c.title,
               !.mention_count_24h = @ + 2,
               !.source_mix = IncMix(@, "naver_shop"),
               !.evidence_links = AddLink(@, it.link),
               !.issue_reasons = Append(@, <<"naver_shop_top", it.cat>>)]]

\* lines 219-228 for the candidate c of the item it
ShopMerge(P, c, it) ==
  IF ~valid_entity(c.brand, c.model) THEN P
  ELSE ShopPut(Touch(P, entity_key(c.brand, c.model)),
               entity_key(c.brand, c.model), c, it)

\* one iteration of  for it in items[:10]  (step 1)
ShopStep(P, it) == ShopMerge(P, ShopCandidateOf[it.title], it)

\* if brand in t and model in normalize(t), with brand, model = k.split('|',1)
\* (a key without "|" makes the unpacking of k.split raise)
NewsMatches(k, rawtitle) ==
  LET Both(bm, t) == In(bm[1], t) /\ In(bm[2], normalize(t))
  IN HasBar(k) /\ Both(SplitKey(k), strip_tags(rawtitle))

\* brand and model of a celebrity news/blog row (lines 269-273)
CelebCandidate(rawtitle, rawdesc) ==
  LET Brand(comb, brand) ==
        [brand |-> brand,
         model |-> normalize_model(extract_model(comb), brand)]
      Comb(comb) == Brand(comb, detect_brand(comb))
  IN Comb(strip_tags(rawtitle) \o <<" ">> \o strip_tags(rawdesc))

\* CelebCandidate over the titles and descriptions of the model
CelebCandidateOf ==
  [td \in AllTitles \X Descs |-> CelebCandidate(td[1], td[2])] @@ <<>>

\* the keys the titles and descriptions of the model can create
BrandModel(c) == [brand |-> c.brand, model |-> c.model]
ModelKeys ==
  {entity_key(c.brand, c.model) :
     c \in {x \in {BrandModel(ShopCandidateOf[t]) : t \in AllTitles}
                  \cup {CelebCandidateOf[td] : td \in AllTitles \X Descs} :
               valid_entity(x.brand, x.model)}}

\* NewsMatches over the keys and titles of the model
NewsMatchesOf == [kt \in ModelKeys \X AllTitles |-> NewsMatches(kt[1], kt[2])] @@ <<>>

\* NewsStep with a news row counted as one mention
NewsStepOne(P, k, n) ==
  IF ~NewsMatchesOf[<<k, n.title>>] THEN P
  ELSE [Touch(P, k) EXCEPT !.pool[k] =
          [@ EXCEPT !.mention_count_24h = @ + 1,
                    !.source_mix = IncMix(@, "naver_news"),
                    !.evidence_links = AddLink(@, n.link),
                    !.issue_reasons = Append(@, <<"naver_news_24h">>)]]

\* one iteration of  for n in news  for the key k (step 2)
NewsStep(P, k, n) ==
  IF ~NewsMatchesOf[<<k, n.title>>] THEN P
  ELSE [Touch(P, k) EXCEPT !.pool[k] =
          [@ EXCEPT !.mention_count_24h = @ + 2,
                    !.source_mix = IncMix(@, "naver_news"),
                    !.evidence_links = AddLink(@, n.link),
                    !.issue_reasons = Append(@, <<"naver_news_24h">>)]]

\* CelebPut with  obj['mention_count_24h'] = 2  for  += 2
CelebPutAssign(P1, k, c, row) ==
  [P1 EXCEPT !.pool[k] =
     [@ EXCEPT !.brand = c.brand,
               !.model_name = c.model,
               !.canonical_product_name =
                  IF @ = <<>> THEN c.brand \o <<" ">> \o c.model ELSE @,
               !.mention_count_24h = 2,
               !.source_mix = IncMix(@, row.src),
               !.evidence_links = AddLink(@, row.link),
               !.issue_reasons =
                  Append(@, <<"celeb_context", row.celeb, row.term>>)]]

\* lines 278-285: the writes to obj = pool[k] for the candidate c of row
CelebPut(P1, k, c, row) ==
  [P1 EXCEPT !.pool[k] =
     [@ EXCEPT !.brand = c.brand,
               !.model_name = c.model,
               !.canonical_product_name =
                  IF @ = <<>> THEN c.brand \o <<" ">> \o c.model ELSE @,
               !.mention_count_24h = @ + 2,
               !.source_mix = IncMix(@, row.src),
               !.evidence_links = AddLink(@, row.link),
               !.issue_reasons =
                  Append(@, <<"celeb_context", row.celeb, row.term>>)]]

\* lines 274-285 for the candidate c of row
CelebMerge(P, c, row) ==
  IF ~valid_entity(c.brand, c.model) THEN P
  ELSE CelebPut(Touch(P, entity_key(c.brand, c.model)),
                entity_key(c.brand, c.model), c, row)

\* one iteration of the row loop of step 2.5
CelebStep(P, row) ==
  CelebMerge(P, CelebCandidateOf[<<row.title, row.desc>>], row)

\* if brand in title and model in normalize(title)  (the title as fetched)
YtMatches(k, title) ==
  LET Both(bm) == In(bm[1], title) /\ In(bm[2], normalize(title))
  IN HasBar(k) /\ Both(SplitKey(k))

YtMatchesOf == [kt \in ModelKeys \X AllTitles |-> YtMatches(kt[1], kt[2])] @@ <<>>

\* YtStep with the title of the video written as the name of the record
YtStepRename(P, k, v) ==
  IF ~YtMatchesOf[<<k, v.title>>] THEN P
  ELSE [Touch(P, k) EXCEPT !.pool[k] =
          [@ EXCEPT !.canonical_product_name = v.title,
                    !.mention_count_24h = @ + 2,
                    !.source_mix = IncMix(@, "youtube"),
                    !.evidence_links = AddLink(@, v.vid),
                    !.issue_reasons =
                       IF v.vid # "" THEN Append(@, <<"youtube_24h">>) ELSE @]]

\* one iteration of  for v in vids  for the key k (step 3); v.vid is the
\* URL built from videoId, "" when the videoId is missing
YtStep(P, k, v) ==
  IF ~YtMatchesOf[<<k, v.title>>] THEN P
  ELSE [Touch(P, k) EXCEPT !.pool[k] =
          [@ EXCEPT !.mention_count_24h = @ + 2,
                    !.source_mix = IncMix(@, "youtube"),
                    !.evidence_links = AddLink(@, v.vid),
                    !.issue_reasons =
                       IF v.vid # "" THEN Append(@, <<"youtube_24h">>) ELSE @]]

(***************************************************************************)
(* entity_first_collector.main: scoring and output (step 4)                *)
(***************************************************************************)
\* ScoreOf without min(100, ...)
ScoreOfUnclamped(obj) ==
  450 + obj.mention_count_24h * 70
      + Cardinality(DOMAIN obj.source_mix) * 50
      + model_quality(obj.model_name) * 8

\* min(100, 45 + mention*7 + len(source_mix)*5 + model_quality*8), rounded
\* to one decimal; in tenths
ScoreOf(obj) ==
  Min(1000, 450 + obj.mention_count_24h * 70
            + Cardinality(DOMAIN obj.source_mix) * 50
            + model_quality(obj.model_name) * 8)

\* the entries of xs at the indices I, in the order of xs
AtIndices(xs, I) ==
  [n \in 1..Cardinality(I) |->
     xs[CHOOSE i \in I : Cardinality({j \in I : j < i}) = n - 1]]

\* list(xs): the duplicates stay
DedupeNone(xs) == xs

\* list(dict.fromkeys(xs)): duplicates removed, first occurrences kept
RECURSIVE Dedupe(_)
Dedupe(xs) ==
  IF xs = <<>> THEN <<>>
  ELSE LET front == Dedupe(SubSeq(xs, 1, Len(xs) - 1))
           x == xs[Len(xs)]
       IN IF \E i \in 1..Len(front) : front[i] = x THEN front
          ELSE Append(front, x)

\* list(S)[:n] for a set S of strings: the iteration order of a set of
\* strings is not fixed by the program (it follows the strings' hashes,
\* which differ from run to run), so every order is possible
SetListCut(S, n) ==
  LET m == Min(n, Cardinality(S)) IN
  {q \in [1..m -> S] : \A i, j \in 1..m : i # j => q[i] # q[j]}

\* the dict appended to items for the record obj under key k, with ev the
\* list made of its evidence set
ItemOf(k, obj, ev) ==
  LET reasons == Take(Dedupe(obj.issue_reasons), ReasonCut) IN
  [entity_key |-> k,
   brand |-> obj.brand,
   model_name |-> obj.model_name,
   canonical_product_name |-> obj.canonical_product_name,
   mention_count_24h |-> obj.mention_count_24h,
   score |-> ScoreOf(obj),
   issue_reason |-> IF reasons # <<>> THEN reasons ELSE <<<<"multi_source_24h">>>>,
   evidence_links |-> ev,
   source_mix |-> obj.source_mix]

\* RanksBefore under key=score alone
RanksBeforeByScore(x, y) == x.score > y.score

\* x sorts strictly before y under key=(score, mention_count_24h), reverse
RanksBefore(x, y) ==
  \/ x.score > y.score
  \/ x.score = y.score /\ x.mention_count_24h > y.mention_count_24h

\* sorted(..., reverse=True) is stable: x goes after every element that
\* does not rank strictly after it
RECURSIVE SortedReverse(_)
SortedReverse(xs) ==
  IF xs = <<>> THEN <<>>
  ELSE LET front == SortedReverse(SubSeq(xs, 1, Len(xs) - 1))
           x == xs[Len(xs)]
           n == Cardinality({i \in 1..Len(front) : ~RanksBefore(x, front[i])})
       IN SubSeq(front, 1, n) \o <<x>> \o SubSeq(front, n + 1, Len(front))

(***************************************************************************)
(* live_collect.py: lexicons                                               *)
(***************************************************************************)
\* live_collect.py lines 35-38
CLOTHING_BLOCKLIST ==
  {<<"k_ui","k_ryu">>, <<"k_os">>, <<"k_ko","k_teu">>, <<"k_pae","k_ding">>,
   <<"k_ni","k_teu">>, <<"k_syeo","k_cheu">>, <<"k_ba","k_ji">>,
   <<"k_chi","k_ma">>, <<"k_won","k_pi","k_seu">>, <<"k_ja","k_kes">>,
   <<"k_jeom","k_peo">>, <<"k_sin","k_bal">>,
   <<"k_seu","k_ni","k_keo","k_jeu">>, <<"k_ga","k_di","k_geon">>,
   <<"k_hu","k_deu">>, <<"k_maen","k_tu","k_maen">>,
   <<"k_cheong","k_ba","k_ji">>, <<"k_seul","k_raeg","k_seu">>,
   <<"k_gu","k_du">>, <<"k_bu","k_cheu">>, <<"k_saen","k_deul">>
  }

\* lines 40-45 (main adds the noise_words of the category rules, line 690)
STOPWORDS ==
  {<<"k_ja","k_chwi">>, <<"k_a","k_jig","k_do">>, <<"k_job","k_eun">>,
   <<"k_yo","k_jeum">>, <<"k_i","k_reoh","k_ge">>, <<"k_mi","k_chin">>,
   <<"k_bo","k_i","k_myeon">>, <<"k_sin","k_bi","k_ro","k_un">>,
   <<"k_eobs","k_eo","k_seo">>, <<"k_mis","k_mis","k_han">>,
   <<"k_sye","k_peu","k_ga">>, <<"k_dog","k_seo">>, <<"k_jeol","k_yun">>,
   <<"k_jang","k_dong","k_hyeog">>, <<"k_gug","k_him">>,
   <<"k_gug","k_min","k_ui","k_him">>, <<"q","u","o","t">>,
   <<"k_o","k_neul">>, <<"k_choe","k_geun">>, <<"k_i","k_syu">>,
   <<"k_hwa","k_je">>, <<"k_gong","k_gae">>, <<"k_chul","k_si">>,
   <<"k_non","k_ran">>, <<"k_yeong","k_sang">>, <<"k_sa","k_jin">>,
   <<"k_bang","k_song">>, <<"k_ne","k_i","k_beo">>,
   <<"k_yu","k_tyu","k_beu">>, <<"k_in","k_seu","k_ta","k_geu","k_raem">>,
   <<"k_dae","k_han">>, <<"k_gwan","k_ryeon">>, <<"k_gi","k_ja">>,
   <<"k_nyu","k_seu">>, <<"k_sog","k_bo">>, <<"k_dan","k_dog">>,
   <<"k_iss","k_da">>, <<"k_eobs","k_da">>, <<"k_jeong","k_ri">>,
   <<"k_hu","k_gi">>, <<"k_chu","k_cheon">>, <<"k_gu","k_mae">>,
   <<"k_ga","k_gyeog">>, <<"k_bi","k_gyo">>, <<"k_nae","k_il">>,
   <<"k_i","k_beon">>, <<"k_sil","k_si","k_gan">>, <<"k_ra","k_i","k_beu">>,
   <<"k_gong","k_sig">>, <<"k_bal","k_pyo">>, <<"k_hyeon","k_jang">>,
   <<"k_in","k_teo","k_byu">>
  }

\* lines 47-50
PERSON_OR_NOISE_HINTS ==
  {<<"k_gi","k_ja">>, <<"k_seon","k_su">>, <<"k_gam","k_dog">>,
   <<"k_bae","k_u">>, <<"k_ga","k_su">>, <<"k_dae","k_tong","k_ryeong">>,
   <<"k_jang","k_gwan">>, <<"k_gug","k_hoe">>, <<"k_chong","k_ri">>,
   <<"k_nal","k_ssi">>, <<"k_jeung","k_si">>, <<"k_hwan","k_yul">>,
   <<"k_gug","k_him">>, <<"k_gug","k_min","k_ui","k_him">>,
   <<"k_min","k_ju","k_dang">>, <<"k_jo","k_seon","k_il","k_bo">>,
   <<"k_sog","k_bo">>, <<"k_jeong","k_chi">>, <<"k_dae","k_seon">>,
   <<"k_yeo","k_ya">>
  }

\* line 52
PRODUCT_SUFFIXES ==
  {<<"k_cheong","k_so","k_gi">>, <<"k_bae","k_teo","k_ri">>,
   <<"k_i","k_eo","k_pon">>, <<"k_he","k_deu","k_ses">>,
   <<"k_ki","k_bo","k_deu">>, <<"k_ma","k_u","k_seu">>,
   <<"k_mo","k_ni","k_teo">>, <<"k_seon","k_pung","k_gi">>,
   <<"k_ga","k_seub","k_gi">>,
   <<"k_gong","k_gi","k_cheong","k_jeong","k_gi">>,
   <<"k_yeong","k_yang","k_je">>, <<"k_an","k_ma","k_gi">>,
   <<"k_mig","k_seo","k_gi">>, <<"k_keo","k_pi","k_meo","k_sin">>,
   <<"k_jeong","k_su","k_gi">>, <<"k_je","k_seub","k_gi">>,
   <<"k_beul","k_raeg","k_bag","k_seu">>, <<"k_seu","k_pi","k_keo">>,
   <<"k_tae","k_beul","k_ris">>, <<"k_no","k_teu","k_bug">>,
   <<"k_seu","k_taen","k_deu">>, <<"k_jo","k_myeong">>, <<"k_mae","k_teu">>,
   <<"k_be","k_gae">>, <<"k_chis","k_sol">>, <<"k_chi","k_yag">>,
   <<"k_syam","k_pu">>, <<"k_keul","k_ren","k_jeo">>, <<"k_se","k_je">>,
   <<"k_geon","k_jo","k_gi">>, <<"k_geo","k_chi","k_dae">>,
   <<"k_ke","k_i","k_seu">>, <<"k_ku","k_keo">>,
   <<"k_peu","k_ra","k_i","k_paen">>, <<"k_naem","k_bi">>,
   <<"k_e","k_eo","k_peu","k_ra","k_i","k_eo">>,
   <<"k_ro","k_bos","k_cheong","k_so","k_gi">>
  }

\* line 54
PHRASE_NOISE ==
  {<<"k_nae","k_don","k_nae","k_san">>, <<"k_chu","k_cheon">>,
   <<"k_hu","k_gi">>, <<"k_ri","k_byu">>, <<"k_sal","k_kka">>,
   <<"k_bi","k_gyo">>, <<"k_jeong","k_ri">>, <<"k_sa","k_yong","k_gi">>,
   <<"k_beu","k_i","k_ro","k_geu">>, <<"s","h","o","r","t","s">>,
   <<"k_syo","k_cheu">>, <<"k_eon","k_bag","k_sing">>, <<"k_hal","k_in">>,
   <<"k_has","k_dil">>
  }

\* line 56
BRAND_HINTS ==
  {<<"k_sam","k_seong">>, <<"L","G">>, <<"k_sya","k_o","k_mi">>,
   <<"k_da","k_i","k_seun">>, <<"k_pil","k_rib","k_seu">>,
   <<"k_beu","k_ri","k_ta">>, <<"k_ku","k_ku">>, <<"k_ku","k_chen">>,
   <<"k_ro","k_bo","k_rag">>, <<"k_ae","k_peul">>, <<"k_so","k_ni">>,
   <<"k_bo","k_seu">>, <<"k_han","k_gyeong","k_hui">>, <<"k_te","k_pal">>,
   <<"k_bal","k_myu","k_da">>, <<"k_sya","k_keu">>,
   <<"k_wi","k_nig","k_seu">>, <<"k_ko","k_we","k_i">>,
   <<"k_kae","k_chi","k_wel">>,
   <<"k_il","k_reg","k_teu","k_ro","k_rug","k_seu">>
  }

\* lines 58-62
PRODUCT_HINTS ==
  {<<"k_cheong","k_so","k_gi">>, <<"k_bo","k_jo","k_bae","k_teo","k_ri">>,
   <<"k_i","k_eo","k_pon">>, <<"k_he","k_deu","k_ses">>,
   <<"k_ki","k_bo","k_deu">>, <<"k_ma","k_u","k_seu">>,
   <<"k_mo","k_ni","k_teo">>, <<"k_seon","k_pung","k_gi">>,
   <<"k_ga","k_seub","k_gi">>,
   <<"k_gong","k_gi","k_cheong","k_jeong","k_gi">>,
   <<"k_bi","k_ta","k_min">>, <<"k_yeong","k_yang","k_je">>,
   <<"k_an","k_ma","k_gi">>, <<"k_mig","k_seo","k_gi">>,
   <<"k_keo","k_pi","k_meo","k_sin">>, <<"k_jeong","k_su","k_gi">>,
   <<"k_je","k_seub","k_gi">>, <<"k_beul","k_raeg","k_bag","k_seu">>,
   <<"k_seu","k_pi","k_keo">>, <<"k_tae","k_beul","k_ris">>,
   <<"k_no","k_teu","k_bug">>, <<"k_seu","k_taen","k_deu">>,
   <<"k_jo","k_myeong">>, <<"k_mae","k_teu">>, <<"k_be","k_gae">>,
   <<"k_chis","k_sol">>, <<"k_chi","k_yag">>, <<"k_syam","k_pu">>,
   <<"k_keul","k_ren","k_jeo">>, <<"k_se","k_je">>,
   <<"k_geon","k_jo","k_gi">>
  }

(***************************************************************************)
(* live_collect.py: text helpers                                           *)
(***************************************************************************)
\* re.sub of  o [^c]+ c  by r: every leftmost o, one or more characters
\* other than c, c is replaced
RECURSIVE ReplaceSpans(_, _, _, _)
ReplaceSpans(s, o, c, r) ==
  IF s = <<>> THEN <<>>
  ELSE IF s[1] = o /\ \E j \in 3..Len(s) : s[j] = c
                                   /\ \A i \in 2..(j - 1) : s[i] # c
       THEN LET j == CHOOSE j \in 3..Len(s) :
                       s[j] = c /\ \A i \in 2..(j - 1) : s[i] # c
            IN r \o ReplaceSpans(SubSeq(s, j + 1, Len(s)), o, c, r)
       ELSE <<s[1]>> \o ReplaceSpans(Tail(s), o, c, r)

\* [0-9A-Za-z가-힣\s]
NormalizeTextKeeps(c) ==
  IsDigit(c) \/ c \in Upper \cup Lower \/ IsHangul(c) \/ IsSpace(c)

normalize_text(s) ==
  LET Blanked(s2) ==
        [i \in 1..Len(s2) |->
           IF NormalizeTextKeeps(s2[i]) THEN s2[i] ELSE " "]
  IN Strip(CollapseSpaces(Blanked(
       ReplaceSpans(ReplaceSpans(s, "[", "]", <<" ">>), "(", ")", <<" ">>))))

\* str.split(): the maximal runs of characters that are not white space
RECURSIVE Split(_)
Split(s) ==
  IF s = <<>> THEN <<>>
  ELSE IF IsSpace(s[1]) THEN Split(Tail(s))
  ELSE LET n == CHOOSE n \in 1..Len(s) :
                  /\ \A i \in 1..n : ~IsSpace(s[i])
                  /\ (n = Len(s) \/ IsSpace(s[n + 1]))
       IN <<SubSeq(s, 1, n)>> \o Split(SubSeq(s, n + 1, Len(s)))

\* STOPWORDS after main has added the rules' noise_words to it
StopWordsOf(rules) == STOPWORDS \cup rules.noise_words

ShortLatinNoise == {<<"t","v">>, <<"t","h">>, <<"v","s">>, <<"k","r">>, <<"k","o">>}

token_candidates(text, rules) ==
  LET Keep(t) == /\ 2 <= Len(t) /\ Len(t) <= 16
                 /\ t \notin StopWordsOf(rules)
                 /\ t \notin CLOTHING_BLOCKLIST
                 /\ ToLower(t) \notin ShortLatinNoise
  IN SelectSeq(Split(normalize_text(text)), Keep)

is_clothing(name) == \E k \in CLOTHING_BLOCKLIST : In(k, name)

\* t.isdigit() or re.fullmatch(r"\d+[년월일시분]?", t)
DateUnits == {"k_nyeon", "k_wol", "k_il", "k_si", "k_bun"}
IsDateLike(t) ==
  \/ StrIsDigit(t)
  \/ Len(t) >= 2 /\ AllIn(t, 1, Len(t) - 1, Digit) /\ t[Len(t)] \in DateUnits

CleanDrops == {<<"s","h","o","r","t","s">>, <<"v","l","o","g">>,
               <<"r","e","v","i","e","w">>, <<"b","e","s","t">>}

clean_item_name(name) ==
  LET Keep(t) == /\ ToLower(t) \notin CleanDrops
                 /\ t \notin PHRASE_NOISE
                 /\ ~IsDateLike(t)
      Cut(cand) == IF Len(cand) > 22 THEN Strip(Take(cand, 22)) ELSE cand
      Joined(parts) ==
        IF parts = <<>> THEN <<>>
        ELSE Cut(Strip(IF Len(parts) >= 2 THEN parts[1] \o <<" ">> \o parts[2]
                       ELSE parts[1]))
  IN Joined(SelectSeq(Split(normalize_text(name)), Keep))

EndsWith(t, suf) ==
  Len(suf) <= Len(t) /\ SubSeq(t, Len(t) - Len(suf) + 1, Len(t)) = suf

\* any(t.endswith(suf) or suf in t for suf in PRODUCT_SUFFIXES)
HasSuffix(t) == \E suf \in PRODUCT_SUFFIXES : EndsWith(t, suf) \/ In(suf, t)
HasHint(t) == \E h \in PRODUCT_HINTS : In(h, t)
HasPersonHint(t) == \E h \in PERSON_OR_NOISE_HINTS : In(h, t)

is_probable_product(name, rules) ==
  LET AnyHint(toks) == \E i \in 1..Len(toks) : HasHint(toks[i])
      Probable(n) ==
        IF n = <<>> THEN FALSE
        ELSE IF HasPersonHint(n) THEN FALSE
        ELSE IF n \in StopWordsOf(rules) THEN FALSE
        ELSE IF IsDateLike(n) THEN FALSE
        ELSE IF HasHint(n) THEN TRUE
        ELSE IF HasSuffix(n) THEN TRUE
        ELSE AnyHint(Split(n))
  IN Probable(normalize_text(name))

\* in tenths
product_likelihood(name) ==
  (IF HasHint(name) THEN 7 ELSE 0)
  - (IF HasPersonHint(name) THEN 5 ELSE 0)
  - (IF Len(name) \in 1..2 /\ AllIn(name, 1, Len(name), Upper \cup Lower)
     THEN 7 ELSE 0)
  - (IF Len(name) <= 1 THEN 8 ELSE 0)

(***************************************************************************)
(* live_collect.py: category rules                                         *)
(***************************************************************************)
\* The rules file is a JSON object {"categories": {name: {"hints": [...],
\* "brands": [...]}}, "noise_words": [...]}; categories is the sequence of
\* its entries in the order of the file.
Gita == <<"k_gi","k_ta">>

CategoriesOf(rules) == rules.categories

\* score of one category entry in detect_category
CategoryHits(cfg, text) ==
  2 * Cardinality({i \in 1..Len(cfg.hints) : In(cfg.hints[i], text)})
  + Cardinality({i \in 1..Len(cfg.brands) : In(cfg.brands[i], text)})

\* the first category whose score is the greatest, "기타" when every score
\* is 0
detect_category(name, rules) ==
  LET Best(hits, i) == /\ hits[i] > 0
                       /\ \A j \in DOMAIN hits :
                            /\ hits[j] <= hits[i]
                            /\ (j < i => hits[j] < hits[i])
      Pick(cats, hits) ==
        IF \E i \in DOMAIN hits : Best(hits, i)
        THEN cats[CHOOSE i \in DOMAIN hits : Best(hits, i)].name
        ELSE Gita
      Scores(cats, text) ==
        Pick(cats, [i \in 1..Len(cats) |-> CategoryHits(cats[i], text)])
  IN Scores(CategoriesOf(rules), normalize_text(name))

\* cats.get(category, {}): the entry of the last category of that name
EmptyCfg == [name |-> <<>>, hints |-> <<>>, brands |-> <<>>]
CfgOf(category, rules) ==
  LET Last(cats, I) ==
        IF I = {} THEN EmptyCfg ELSE cats[CHOOSE i \in I : \A j \in I : j <= i]
      Named(cats) == Last(cats, {i \in 1..Len(cats) : cats[i].name = category})
  IN Named(CategoriesOf(rules))

\* in tenths
category_match_score(name, category, rules) ==
  LET Score(cfg, text) ==
        Min(15,
          5 * Cardinality({i \in 1..Len(cfg.hints) : In(cfg.hints[i], text)})
          + 4 * Cardinality({i \in 1..Len(cfg.brands) : In(cfg.brands[i], text)})
          + (IF HasSuffix(text) THEN 5 ELSE 0)
          + (IF HasHint(text) THEN 5 ELSE 0))
  IN Score(CfgOf(category, rules), normalize_text(name))

(***************************************************************************)
(* live_collect.py: choose_item_name                                       *)
(***************************************************************************)
\* the index of the first part that satisfies Has, 0 when there is none
FirstPart(parts, Has(_)) ==
  IF \E i \in 1..Len(parts) : Has(parts[i])
  THEN CHOOSE i \in 1..Len(parts) :
         Has(parts[i]) /\ \A j \in 1..(i - 1) : ~Has(parts[j])
  ELSE 0

\* the value returned for the part i: the 2-gram with the part before it
\* when that part has at most 8 characters and the 2-gram is no clothing
AroundPart(parts, i) ==
  LET Gram(two) == IF is_clothing(two) THEN parts[i] ELSE two
  IN IF i > 1 /\ Len(parts[i - 1]) <= 8
     THEN Gram(Strip(parts[i - 1] \o <<" ">> \o parts[i]))
     ELSE parts[i]

\* PRODUCT_HINTS is a set: the order  for hint in PRODUCT_HINTS  visits it
\* in is not fixed by the program, so the hint of the title that comes
\* first is any of those that occur in it (<<>>: none occurs)
FirstHints(title) ==
  LET OrNone(H) == IF H = {} THEN {<<>>} ELSE H
      Occur(raw) == OrNone({h \in PRODUCT_HINTS : In(h, raw)})
  IN Occur(normalize_text(title))

\* choose_item_name when hint is the first hint of the loop that occurs in
\* the title; None is <<>>
choose_item_name(title, rules, hint) ==
  LET HasTheHint(t) == In(hint, t)
      Fallback(t) == /\ ~is_clothing(t)
                     /\ ~IsDateLike(t)
                     /\ ~HasPersonHint(t)
                     /\ HasHint(t)
      ByFallback(toks, i) ==
        IF i # 0 THEN clean_item_name(toks[i]) ELSE <<>>
      BySuffix(parts, toks, i) ==
        IF i # 0 THEN AroundPart(parts, i)
        ELSE ByFallback(toks, FirstPart(toks, Fallback))
      ByHint(parts, toks) ==
        IF toks = <<>> THEN <<>>
        ELSE IF hint # <<>> THEN AroundPart(parts, FirstPart(parts, HasTheHint))
        ELSE BySuffix(parts, toks, FirstPart(parts, HasSuffix))
  IN ByHint(Split(normalize_text(title)), token_candidates(title, rules))

\* the values choose_item_name can return for the title
ChooseNames(title, rules) ==
  {choose_item_name(title, rules, h) : h \in FirstHints(title)}

(***************************************************************************)
(* live_collect.py: build_items                                            *)
(***************************************************************************)
\* the value the Counter and the defaultdicts of build_items hold for a
\* name: counts[name] (in thousandths), links[name], titles[name] and
\* src_counts[name]
LcDefault ==
  [count |-> 0, links |-> <<>>, titles |-> <<>>, src_counts |-> EmptyMix]

EmptyCounts == [pool |-> [k \in {} |-> LcDefault], order |-> <<>>]

\* SourceWeight with "rss": 0.5
SourceWeightHalfRss(source) == IF source = "youtube" THEN 1200 ELSE 500

\* SourceWeight with one weight for every source
SourceWeightFlat(source) == 1000

\* source_weight = {"rss": 1.0, "youtube": 1.2} (main), read with
\* source_weight.get(source, 1.0); in thousandths
SourceWeight(source) == IF source = "youtube" THEN 1200 ELSE 1000

\* lines 570-587: the name the loop body derives from a title when hint is
\* the first hint of choose_item_name, whether the row is counted, and the
\* category match score (tenths) of the name
RowCandidate(title, rules, hint) ==
  LET Cand(name0, name, cm) ==
        [ok |-> /\ name0 # <<>>
                /\ name # <<>>
                /\ ~is_clothing(name)
                /\ ~IsDateLike(name)
                /\ ~HasPersonHint(name)
                /\ Len(name) >= 2
                /\ (is_probable_product(name, rules) \/ cm >= 5),
         name |-> name,
         cm |-> cm]
      Cleaned(name0, name) ==
        Cand(name0, name,
             category_match_score(name, detect_category(name, rules), rules))
      Chosen(name0) == Cleaned(name0, clean_item_name(name0))
  IN Chosen(choose_item_name(title, rules, hint))

RowCandidates(title, rules) ==
  {RowCandidate(title, rules, h) : h \in FirstHints(title)}

AppendNew(xs, x) ==
  IF \E i \in 1..Len(xs) : xs[i] = x THEN xs ELSE Append(xs, x)

\* one iteration of  for r in rows  with c the candidate of r's title
\* (lines 589-596)
BuildStep(B, r, c) ==
  IF ~c.ok THEN B
  ELSE LET k == c.name
           B1 == IF k \in DOMAIN B.pool THEN B
                 ELSE [pool |-> [x \in (DOMAIN B.pool) \cup {k} |->
                                   IF x = k THEN LcDefault ELSE B.pool[x]],
                       order |-> Append(B.order, k)]
           w == SourceWeight(r.source) + c.cm * 15
       IN [B1 EXCEPT !.pool[k] =
             [@ EXCEPT !.count = @ + w,
                       !.links = IF r.link # "" THEN AppendNew(@, r.link) ELSE @,
                       !.titles = IF r.title # <<>> THEN Append(@, r.title) ELSE @,
                       !.src_counts = IncMix(@, r.source)]]

\* Counter.most_common(n): the names by decreasing count, names of equal
\* count in insertion order, the first n of them
RECURSIVE ByCount(_, _)
ByCount(B, names) ==
  IF names = <<>> THEN <<>>
  ELSE LET front == ByCount(B, SubSeq(names, 1, Len(names) - 1))
           x == names[Len(names)]
           n == Cardinality({i \in 1..Len(front) :
                               B.pool[front[i]].count >= B.pool[x].count})
       IN SubSeq(front, 1, n) \o <<x>> \o SubSeq(front, n + 1, Len(front))

most_common(B, n) == Take(ByCount(B, B.order), n)

\* 48 + c*10 + n_ratio*0.25 + pl*12 with c in thousandths, n_ratio in units
\* and pl in tenths; in thousandths
RawScore(c, n_ratio, pl) == 48000 + c * 10 + n_ratio * 250 + pl * 1200

\* round(x, 1) of a value given in thousandths, in tenths.  The program
\* computes x in binary floating point, where the weights 1.075, 1.2, ...
\* are inexact: a value whose decimal expansion ends in 5 hundredths is
\* rounded up or down as the error of the float sum falls (up tells which).
IsTie(x) == x % 100 = 50
Round1(x, up) ==
  LET q == x \div 100
      r == x % 100
  IN IF r < 50 THEN q
     ELSE IF r > 50 THEN q + 1
     ELSE IF up THEN q + 1 ELSE q

\* max(0, min(100, round(score, 1))), in tenths
LcScore(c, n_ratio, pl, up) ==
  Max(0, Min(1000, Round1(RawScore(c, n_ratio, pl), up)))

(***************************************************************************)
(* live_collect.py: inputs of the model                                    *)
(***************************************************************************)
R_Dyson == <<"k_da","k_i","k_seun"," ","k_cheong","k_so","k_gi"," ","k_chu","k_cheon">>
R_DysonDeal ==
  <<"[","k_has","k_dil","]"," ","k_da","k_i","k_seun"," ","k_cheong","k_so","k_gi",
    " ","(","V","1","2",")">>
R_Case == <<"k_a","k_i","k_pon"," ","k_ke","k_i","k_seu"," ","k_hu","k_gi">>
R_Robot == <<"k_ro","k_bos","k_cheong","k_so","k_gi">>
R_Politics == <<"k_gug","k_hoe"," ","k_dae","k_seon"," ","k_sog","k_bo">>
\* the titles of a run of the state machine
LcTitles == {R_DysonDeal, R_Case, R_Robot, R_Politics}
\* every title of the model
LcAllTitles == LcTitles \cup {R_Dyson}

\* load_category_rules when the file is missing or unreadable
NoRules == [categories |-> <<>>, noise_words |-> {}]
\* a rules file with one category
RulesA ==
  [categories |->
     <<[name |-> <<"k_ga","k_jeon">>,
        hints |-> <<<<"k_cheong","k_so","k_gi">>>>,
        brands |-> <<<<"k_da","k_i","k_seun">>>>]>>,
   noise_words |-> {}]
RuleSets == {NoRules, RulesA}

\* a fetched row has a link (fetch_rss line 256, fetch_youtube_rows line
\* 318): one the rows hold already or the first of LinkSeq they do not hold
RowLinkChoices(rs) ==
  {LinkSeq[i] :
     i \in 1..Min(Len(LinkSeq),
                  Cardinality({rs[j].link : j \in 1..Len(rs)}) + 1)}

(***************************************************************************)
(* live_collect.py: main, the refill and coarse_fallback_items             *)
(***************************************************************************)
\* clean_item_name of every element of ts
RECURSIVE CleanAll(_)
CleanAll(ts) ==
  IF ts = <<>> THEN <<>>
  ELSE <<clean_item_name(ts[1])>> \o CleanAll(Tail(ts))

\* the titles of the refill rows a row yields (lines 744-753)
RefillTitles(title, rules) ==
  LET Kept(t2) == /\ t2 # <<>>
                  /\ ~is_clothing(t2)
                  /\ ~IsDateLike(t2)
                  /\ is_probable_product(t2, rules)
      Keep(t) == Kept(clean_item_name(t))
  IN CleanAll(SelectSeq(Take(token_candidates(title, rules), 2), Keep))

RefillTitlesOf ==
  [tr \in LcAllTitles \X RuleSets |-> RefillTitles(tr[1], tr[2])] @@ <<>>

RECURSIVE RefillRows(_, _)
RefillRows(rs, rules) ==
  IF rs = <<>> THEN <<>>
  ELSE LET ts == RefillTitlesOf[<<rs[1].title, rules>>] IN
       [i \in 1..Len(ts) |->
          [title |-> ts[i], link |-> rs[1].link, source |-> rs[1].source]]
       \o RefillRows(Tail(rs), rules)

\* every text build_items is called on: the titles and the refill titles
TitlesIn(table) ==
  UNION {{table[x][i] : i \in 1..Len(table[x])} : x \in DOMAIN table}
LcTexts == LcAllTitles \cup TitlesIn(RefillTitlesOf)

\* RowCandidates over the texts of the model, evaluated once
RowCandidatesOf ==
  [tr \in LcTexts \X RuleSets |-> RowCandidates(tr[1], tr[2])] @@ <<>>

\* the names build_items can count, and product_likelihood over them
LcNames ==
  {c.name : c \in UNION {RowCandidatesOf[tr] : tr \in DOMAIN RowCandidatesOf}}

LikelihoodOf == [name \in LcNames |-> product_likelihood(name)] @@ <<>>

\* cm of build_items (lines 586-587) over the names and rules of the model
MatchScoreOf ==
  [nr \in LcNames \X RuleSets |->
     category_match_score(nr[1], detect_category(nr[1], nr[2]), nr[2])] @@ <<>>

\* naver_weight.get(name, 0.0)
RatioOf(naver_weight, name) ==
  IF name \in DOMAIN naver_weight THEN naver_weight[name] ELSE 0

\* the dict appended to items for name (lines 606-634); count is counts[name],
\* kept beside the emitted keys; category and entity_candidates are left out
LcItem(B, name, naver_weight, up) ==
  [item_name |-> name,
   evidence_links |-> Take(B.pool[name].links, LinkCut),
   score |-> LcScore(B.pool[name].count, RatioOf(naver_weight, name),
                     LikelihoodOf[name], up),
   source |-> "multi",
   source_mix |-> B.pool[name].src_counts,
   naver_ratio |-> RatioOf(naver_weight, name),
   product_likelihood |-> LikelihoodOf[name],
   count |-> B.pool[name].count]

\* lines 597-636: the items of the names of most_common(200) whose
\* product_likelihood is not below -0.3, cut to top_n
\* (ups: the names whose score is rounded up when it is a tie)
RECURSIVE EmitNames(_, _, _, _)
EmitNames(B, names, naver_weight, ups) ==
  IF names = <<>> THEN <<>>
  ELSE (IF LikelihoodOf[names[1]] < -3 THEN <<>>
        ELSE <<LcItem(B, names[1], naver_weight, names[1] \in ups)>>)
       \o EmitNames(B, Tail(names), naver_weight, ups)

BuildEmit(B, n, naver_weight, ups) ==
  Take(EmitNames(B, most_common(B, MostCommonCut), naver_weight, ups), n)

\* the names whose score is a tie of round
TieNames(B, naver_weight) ==
  {k \in DOMAIN B.pool :
     IsTie(RawScore(B.pool[k].count, RatioOf(naver_weight, k),
                    LikelihoodOf[k]))}

\* build_items as a function of its arguments, for a row list on whose
\* titles choose_item_name has one value (a title of one token, as every
\* refill row has, has one)
RECURSIVE BuildRows(_, _, _)
BuildRows(B, rs, rules) ==
  IF rs = <<>> THEN B
  ELSE BuildRows(
         BuildStep(B, rs[1],
                   CHOOSE c \in RowCandidatesOf[<<rs[1].title, rules>>] : TRUE),
         Tail(rs), rules)

build_items(rs, n, naver_weight, rules, ups) ==
  BuildEmit(BuildRows(EmptyCounts, rs, rules), n, naver_weight, ups)

\* the refill without the test of the names already there
AppendExtrasAny(its, extra, n) ==
  its \o Take(extra, Max(n - Len(its), 0))

\* for e in extra: the items of extra whose name is new are appended until
\* there are n items (lines 756-762)
RECURSIVE AppendExtras(_, _, _)
AppendExtras(its, extra, n) ==
  IF extra = <<>> \/ Len(its) >= n THEN its
  ELSE IF \E i \in 1..Len(its) : its[i].item_name = extra[1].item_name
  THEN AppendExtras(its, Tail(extra), n)
  ELSE AppendExtras(Append(its, extra[1]), Tail(extra), n)

\* the tokens of a title that coarse_fallback_items counts
CoarseTokens(title, rules) ==
  LET Keep(t) == /\ t \notin StopWordsOf(rules)
                 /\ ~is_clothing(t)
                 /\ ~StrIsDigit(t)
  IN SelectSeq(token_candidates(title, rules), Keep)

CoarseTokensOf ==
  [tr \in LcAllTitles \X RuleSets |-> CoarseTokens(tr[1], tr[2])] @@ <<>>

\* c[t] += 1 and the link of the row for the tokens ts of one row; count is
\* in thousandths as in build_items
RECURSIVE CoarseRow(_, _, _)
CoarseRow(B, ts, link) ==
  IF ts = <<>> THEN B
  ELSE LET k == ts[1]
           B1 == IF k \in DOMAIN B.pool THEN B
                 ELSE [pool |-> [x \in (DOMAIN B.pool) \cup {k} |->
                                   IF x = k THEN LcDefault ELSE B.pool[x]],
                       order |-> Append(B.order, k)]
       IN CoarseRow(
            [B1 EXCEPT !.pool[k] =
               [@ EXCEPT !.count = @ + 1000,
                         !.links = IF link # "" THEN AppendNew(@, link) ELSE @]],
            Tail(ts), link)

RECURSIVE CoarseRows(_, _, _)
CoarseRows(B, rs, rules) ==
  IF rs = <<>> THEN B
  ELSE CoarseRows(CoarseRow(B, CoarseTokensOf[<<rs[1].title, rules>>], rs[1].link),
                  Tail(rs), rules)

\* the dict coarse_fallback_items appends for name, counted n times
CoarseItem(B, name) ==
  LET n == B.pool[name].count \div 1000 IN
  [item_name |-> name,
   evidence_links |-> Take(B.pool[name].links, CoarseLinkCut),
   score |-> Max(400, Min(650, 400 + n * 30)),
   source |-> "fallback-rss",
   source_mix |-> [s \in {"rss"} |-> n],
   naver_ratio |-> 0,
   product_likelihood |-> 0,
   count |-> B.pool[name].count]

coarse_fallback_items(rs, n, rules) ==
  LET B == CoarseRows(EmptyCounts, rs, rules)
      LongEnough(name) == Len(name) >= 2
      names == Take(SelectSeq(most_common(B, n * 3), LongEnough), n)
  IN [i \in 1..Len(names) |-> CoarseItem(B, names[i])]

\* the keywords extract_seed_keywords counts for a title: its tokens that
\* are no clothing
SeedTokens(title, rules) ==
  LET NoClothing(toks) ==
        {toks[j] : j \in {i \in 1..Len(toks) : ~is_clothing(toks[i])}}
  IN NoClothing(token_candidates(title, rules))

SeedTokensOf ==
  [tr \in LcAllTitles \X RuleSets |-> SeedTokens(tr[1], tr[2])] @@ <<>>

\* extract_seed_keywords(merged_rows, max_k=30), as a set
PrelimKeywords(rs, rules) ==
  UNION {SeedTokensOf[<<rs[i].title, rules>>] : i \in 1..Len(rs)}

\* datalab_scores: {} without credentials, on a failure or for no keyword;
\* otherwise a ratio for keywords it was asked about.  The model takes the
\* answer for every keyword with the ratio 100 of a peak day.
EmptyNaver == [k \in {} |-> 0]
NaverChoices(rs, rules) ==
  {EmptyNaver, [k \in PrelimKeywords(rs, rules) |-> 100]}

\* rss_recent: the rows of merged_rows that fetch_rss returned
RssRows(rs) == LET IsRss(r) == r.source = "rss" IN SelectSeq(rs, IsRss)

(***************************************************************************)
(* State                                                                   *)
(***************************************************************************)
VARIABLES
  prog,     \* the script that runs: "entity_first" or "live_collect"
  pc,       \* the step of main the run is in
  top_n,    \* args.top_n
  yk,       \* whether YOUTUBE_API_KEY is set
  pool,     \* entity_first: key -> record
  order,    \* entity_first: the keys of pool in insertion order
  keys,     \* entity_first: the key list a pass iterates (keys, [:40])
  ki,       \* index into keys / order of the running loop
  ci,       \* index of the category or query of the running loop
  cphase,   \* step 2.5: the rows of "naver_news" come before "naver_blog"
  nrows,    \* rows delivered so far
  items,    \* the items list
  rows,     \* live_collect: merged_rows
  category_rules,  \* live_collect: category_rules
  naver_scores,  \* live_collect: the DataLab ratio of a keyword
  run1,     \* a run of a pipeline over a row list: [input, ties, result]
  run2,     \* the run over the same rows in another order
  errors    \* live_collect: errors, the sources whose fetch raised

vars ==
  <<prog, pc, top_n, yk, pool, order, keys, ki, ci, cphase, nrows, items,
    rows, category_rules, naver_scores, run1, run2, errors>>

EmptyPool == [k \in {} |-> DefaultRecord]

\* RSS_SOURCES, the feeds of live_collect.main
RSS_SOURCES ==
  <<"https://trends.google.com/trending/rss?geo=KR",
    "https://news.google.com/rss?hl=ko&gl=KR&ceid=KR:ko">>

\* run1 and run2 while no pipeline is run a second time
NoRun == [input |-> <<>>, ties |-> {}, result |-> <<>>]

InitEF ==
  /\ prog = "entity_first"
  /\ pc = "shop"
  /\ top_n \in 0..MaxTopN
  /\ yk \in BOOLEAN
  /\ pool = EmptyPool
  /\ order = <<>>
  /\ keys = <<>>
  /\ ki = 1
  /\ ci = 1
  /\ cphase = "naver_news"
  /\ nrows = 0
  /\ items = <<>>
  /\ rows = <<>>
  /\ category_rules = NoRules
  /\ naver_scores = EmptyNaver
  /\ run1 = NoRun
  /\ run2 = NoRun
  /\ errors = <<>>

(***************************************************************************)
(* entity_first_collector.main: the steps                                  *)
(***************************************************************************)
\* step 1, one item of the shopping response of category ci
EF_ShopRow ==
  /\ prog = "entity_first" /\ pc = "shop"
  /\ ci <= MaxCats /\ nrows < MaxRows
  /\ \E title \in Titles, link \in LinkChoices(pool) :
       LET it == [cat |-> SHOP_CATEGORIES[ci], title |-> title, link |-> link]
           P == ShopStep([pool |-> pool, order |-> order], it)
       IN pool' = P.pool /\ order' = P.order
  /\ nrows' = nrows + 1
  /\ UNCHANGED <<errors, run1, run2, rows, category_rules, naver_scores, prog, pc, top_n, yk, keys, ki, ci, cphase, items>>

\* step 1, the items of category ci are done (the categories after MaxCats
\* return no item); after the last category step 2 starts with
\* keys=list(pool.keys())
EF_ShopNextCat ==
  /\ prog = "entity_first" /\ pc = "shop"
  /\ IF ci < MaxCats
     THEN ci' = ci + 1 /\ UNCHANGED <<pc, keys, ki>>
     ELSE pc' = "news" /\ keys' = order /\ ki' = 1 /\ ci' = 1
  /\ UNCHANGED <<errors, run1, run2, rows, category_rules, naver_scores, prog, top_n, yk, pool, order, cphase, nrows, items>>

\* step 2, one item of the news response for keys[ki]
EF_NewsRow ==
  /\ prog = "entity_first" /\ pc = "news"
  /\ ki <= Len(keys) /\ nrows < MaxRows
  /\ \E title \in Titles, link \in LinkChoices(pool) :
       LET n == [title |-> title, link |-> link]
           P == NewsStep([pool |-> pool, order |-> order], keys[ki], n)
       IN pool' = P.pool /\ order' = P.order
  /\ nrows' = nrows + 1
  /\ UNCHANGED <<errors, run1, run2, rows, category_rules, naver_scores, prog, pc, top_n, yk, keys, ki, ci, cphase, items>>

\* step 2, the news of keys[ki] are done; after the last key step 2.5 starts
EF_NewsNextKey ==
  /\ prog = "entity_first" /\ pc = "news"
  /\ IF ki <= Len(keys)
     THEN ki' = ki + 1 /\ UNCHANGED <<pc, ci, cphase>>
     ELSE pc' = "celeb" /\ ci' = 1 /\ cphase' = "naver_news" /\ ki' = 1
  /\ UNCHANGED <<errors, run1, run2, rows, category_rules, naver_scores, prog, top_n, yk, pool, order, keys, nrows, items>>

\* step 2.5, one row of news[:5] + blogs[:5] of query ci
EF_CelebRow ==
  /\ prog = "entity_first" /\ pc = "celeb"
  /\ ci <= MaxQueries /\ nrows < MaxRows
  /\ \E title \in Titles, desc \in Descs, link \in LinkChoices(pool) :
       LET row == [celeb |-> CelebQuery(ci)[1], term |-> CelebQuery(ci)[2],
                   src |-> cphase, title |-> title, desc |-> desc,
                   link |-> link]
           P == CelebStep([pool |-> pool, order |-> order], row)
       IN pool' = P.pool /\ order' = P.order
  /\ nrows' = nrows + 1
  /\ UNCHANGED <<errors, run1, run2, rows, category_rules, naver_scores, prog, pc, top_n, yk, keys, ki, ci, cphase, items>>

\* step 2.5: the news rows of query ci are done, then its blog rows, then
\* the next query (the queries after MaxQueries return no row); after the
\* last query step 3 runs if yk, over list(pool.keys())[:40], and step 4
\* otherwise
EF_CelebNext ==
  /\ prog = "entity_first" /\ pc = "celeb"
  /\ IF cphase = "naver_news"
     THEN cphase' = "naver_blog" /\ UNCHANGED <<pc, ci, keys, ki>>
     ELSE IF ci < MaxQueries
     THEN ci' = ci + 1 /\ cphase' = "naver_news" /\ UNCHANGED <<pc, keys, ki>>
     ELSE /\ pc' = IF yk THEN "yt" ELSE "score"
          /\ keys' = IF yk THEN Take(order, YtKeyCut) ELSE keys
          /\ ki' = 1 /\ ci' = 1 /\ cphase' = "naver_news"
  /\ UNCHANGED <<errors, run1, run2, rows, category_rules, naver_scores, prog, top_n, yk, pool, order, nrows, items>>

\* step 3, one video of the search response for keys[ki]
EF_YtRow ==
  /\ prog = "entity_first" /\ pc = "yt"
  /\ ki <= Len(keys) /\ nrows < MaxRows
  /\ \E title \in Titles, vid \in LinkChoices(pool) :
       LET v == [title |-> title, vid |-> vid]
           P == YtStep([pool |-> pool, order |-> order], keys[ki], v)
       IN pool' = P.pool /\ order' = P.order
  /\ nrows' = nrows + 1
  /\ UNCHANGED <<errors, run1, run2, rows, category_rules, naver_scores, prog, pc, top_n, yk, keys, ki, ci, cphase, items>>

\* step 3, the videos of keys[ki] are done; after the last key step 4 starts
EF_YtNextKey ==
  /\ prog = "entity_first" /\ pc = "yt"
  /\ IF ki <= Len(keys)
     THEN ki' = ki + 1 /\ UNCHANGED pc
     ELSE pc' = "score" /\ ki' = 1
  /\ UNCHANGED <<errors, run1, run2, rows, category_rules, naver_scores, prog, top_n, yk, pool, order, keys, ci, cphase, nrows, items>>

\* step 4, one iteration of  for k,obj in pool.items()
EF_ScoreRecord ==
  /\ prog = "entity_first" /\ pc = "score"
  /\ ki <= Len(order)
  /\ LET k == order[ki]
         obj == pool[k]
     IN IF obj.mention_count_24h < 2 THEN items' = items
        ELSE \E ev \in SetListCut(obj.evidence_links, EvidenceCut) :
               items' = Append(items, ItemOf(k, obj, ev))
  /\ ki' = ki + 1
  /\ UNCHANGED <<errors, run1, run2, rows, category_rules, naver_scores, prog, pc, top_n, yk, pool, order, keys, ci, cphase, nrows>>

\* step 4, items=sorted(...)[:args.top_n] and the payload is written
EF_Output ==
  /\ prog = "entity_first" /\ pc = "score"
  /\ ki > Len(order)
  /\ items' = Take(SortedReverse(items), top_n)
  /\ pc' = "done"
  /\ UNCHANGED <<errors, run1, run2, rows, category_rules, naver_scores, prog, top_n, yk, pool, order, keys, ki, ci, cphase, nrows>>

NextEF ==
  \/ EF_ShopRow \/ EF_ShopNextCat
  \/ EF_NewsRow \/ EF_NewsNextKey
  \/ EF_CelebRow \/ EF_CelebNext
  \/ EF_YtRow \/ EF_YtNextKey
  \/ EF_ScoreRecord \/ EF_Output

InitLC ==
  /\ prog = "live_collect"
  /\ pc = "rss"
  /\ top_n \in 0..MaxTopN
  /\ yk \in BOOLEAN
  /\ pool = EmptyCounts.pool
  /\ order = <<>>
  /\ keys = <<>>
  /\ ki = 1
  /\ ci = 1
  /\ cphase = "naver_news"
  /\ nrows = 0
  /\ items = <<>>
  /\ rows = <<>>
  /\ category_rules \in RuleSets
  /\ naver_scores = EmptyNaver
  /\ run1 = NoRun
  /\ run2 = NoRun
  /\ errors = <<>>

(***************************************************************************)
(* live_collect.main: the steps                                            *)
(***************************************************************************)
\* 1) one recent row of an RSS source whose fetch_rss returned
LC_RssRow ==
  /\ prog = "live_collect" /\ pc = "rss"
  /\ nrows < MaxRows
  /\ Len(errors) < Len(RSS_SOURCES)
  /\ \E title \in LcTitles, link \in RowLinkChoices(rows) :
       rows' = Append(rows, [title |-> title, link |-> link, source |-> "rss"])
  /\ nrows' = nrows + 1
  /\ UNCHANGED <<errors, run1, run2, prog, pc, top_n, yk, pool, order, keys, ki, ci, cphase, items,
                 category_rules, naver_scores>>

\* 1) the RSS sources are done; 3) runs if YOUTUBE_API_KEY is set
LC_RssDone ==
  /\ prog = "live_collect" /\ pc = "rss"
  /\ pc' = IF yk THEN "youtube" ELSE "merge"
  /\ UNCHANGED <<errors, run1, run2, prog, top_n, yk, pool, order, keys, ki, ci, cphase, nrows,
                 items, rows, category_rules, naver_scores>>

\* 3) one recent row of the YouTube searches
LC_YtRow ==
  /\ prog = "live_collect" /\ pc = "youtube"
  /\ nrows < MaxRows
  /\ \E title \in LcTitles, link \in RowLinkChoices(rows) :
       rows' = Append(rows, [title |-> title, link |-> link, source |-> "youtube"])
  /\ nrows' = nrows + 1
  /\ UNCHANGED <<errors, run1, run2, prog, pc, top_n, yk, pool, order, keys, ki, ci, cphase, items,
                 category_rules, naver_scores>>

LC_YtDone ==
  /\ prog = "live_collect" /\ pc = "youtube"
  /\ pc' = "merge"
  /\ UNCHANGED <<errors, run1, run2, prog, top_n, yk, pool, order, keys, ki, ci, cphase, nrows,
                 items, rows, category_rules, naver_scores>>

\* 4) raise SystemExit when there is no row
LC_Abort ==
  /\ prog = "live_collect" /\ pc = "merge"
  /\ rows = <<>>
  /\ pc' = "aborted"
  /\ UNCHANGED <<errors, run1, run2, prog, top_n, yk, pool, order, keys, ki, ci, cphase, nrows,
                 items, rows, category_rules, naver_scores>>

\* 5) the DataLab weights; then build_items starts
LC_Datalab ==
  /\ prog = "live_collect" /\ pc = "merge"
  /\ rows # <<>>
  /\ naver_scores' \in NaverChoices(rows, category_rules)
  /\ pc' = "build" /\ ki' = 1
  /\ UNCHANGED <<errors, run1, run2, prog, top_n, yk, pool, order, keys, ci, cphase, nrows, items,
                 rows, category_rules>>

\* 6) build_items, one iteration of  for r in rows
LC_BuildRow ==
  /\ prog = "live_collect" /\ pc = "build"
  /\ ki <= Len(rows)
  /\ \E c \in RowCandidatesOf[<<rows[ki].title, category_rules>>] :
       LET B == BuildStep([pool |-> pool, order |-> order], rows[ki], c)
       IN pool' = B.pool /\ order' = B.order
  /\ ki' = ki + 1
  /\ UNCHANGED <<errors, run1, run2, prog, pc, top_n, yk, keys, ci, cphase, nrows, items, rows,
                 category_rules, naver_scores>>

\* 6) build_items, the loop over counts.most_common(200) and the return
LC_BuildEmit ==
  /\ prog = "live_collect" /\ pc = "build"
  /\ ki > Len(rows)
  /\ \E ups \in SUBSET TieNames([pool |-> pool, order |-> order], naver_scores) :
       items' = BuildEmit([pool |-> pool, order |-> order], top_n,
                          naver_scores, ups)
  /\ pc' = "refill"
  /\ UNCHANGED <<errors, run1, run2, prog, top_n, yk, pool, order, keys, ki, ci, cphase, nrows,
                 rows, category_rules, naver_scores>>

\* the refill of main when build_items returned fewer than top_n items
LC_Refill ==
  /\ prog = "live_collect" /\ pc = "refill"
  /\ IF Len(items) < top_n
     THEN LET refill_rows == RefillRows(rows, category_rules) IN
          \E ups \in SUBSET TieNames(BuildRows(EmptyCounts, refill_rows,
                                               category_rules), naver_scores) :
            items' = AppendExtras(items,
                                  build_items(refill_rows, top_n * 2,
                                              naver_scores, category_rules, ups),
                                  top_n)
     ELSE items' = items
  /\ pc' = "fallback"
  /\ UNCHANGED <<errors, run1, run2, prog, top_n, yk, pool, order, keys, ki, ci, cphase, nrows,
                 rows, category_rules, naver_scores>>

\* coarse_fallback_items when there is still no item; the list is written
LC_Fallback ==
  /\ prog = "live_collect" /\ pc = "fallback"
  /\ items' = IF Len(items) = 0
              THEN coarse_fallback_items(
                     IF RssRows(rows) # <<>> THEN RssRows(rows) ELSE rows,
                     top_n, category_rules)
              ELSE items
  /\ pc' = "done"
  /\ UNCHANGED <<errors, run1, run2, prog, top_n, yk, pool, order, keys, ki, ci, cphase, nrows,
                 rows, category_rules, naver_scores>>

NextLC ==
  \/ LC_RssRow \/ LC_RssDone
  \/ LC_YtRow \/ LC_YtDone
  \/ LC_Abort \/ LC_Datalab
  \/ LC_BuildRow \/ LC_BuildEmit
  \/ LC_Refill \/ LC_Fallback

Init == InitEF \/ InitLC
Next == NextEF \/ NextLC
Spec == Init /\ [][Next]_vars

(***************************************************************************)
(* Step 4 of entity_first_collector.main over pools of more rows: the      *)
(* pool a run holds when step 4 starts is drawn from those that shopping   *)
(* and news rows build, and step 4 runs on it.                             *)
(***************************************************************************)
EmptyP == [pool |-> EmptyPool, order |-> <<>>]

\* the shopping row and the news row of a title, without a link
ShopRowOf(title) == [cat |-> SHOP_CATEGORIES[1], title |-> title, link |-> ""]
NewsRowOf(title) == [title |-> title, link |-> ""]

\* step 1 over the rows rs
RECURSIVE ShopRows(_, _)
ShopRows(P, rs) ==
  IF rs = <<>> THEN P ELSE ShopRows(ShopStep(P, rs[1]), Tail(rs))

\* step 2 for the key k over the news rows ns
RECURSIVE NewsRows(_, _, _)
NewsRows(P, k, ns) ==
  IF ns = <<>> THEN P ELSE NewsRows(NewsStep(P, k, ns[1]), k, Tail(ns))

\* n copies of x
Repeat(x, n) == [i \in 1..n |-> x]

\* the titles whose keys the pools hold
RankTitles == {T_SamsungRF85, T_LgOled, T_DysonV12}
KeyOfTitle(t) == entity_key(ShopCandidateOf[t].brand, ShopCandidateOf[t].model)

\* es lists, per key in insertion order, a title and how many shopping and
\* news rows carry it: all shopping rows come first, then the news of each
\* key
RECURSIVE ShopAll(_, _)
ShopAll(P, es) ==
  IF es = <<>> THEN P
  ELSE ShopAll(ShopRows(P, Repeat(ShopRowOf(es[1].title), es[1].shop)), Tail(es))

RECURSIVE NewsAll(_, _)
NewsAll(P, es) ==
  IF es = <<>> THEN P
  ELSE NewsAll(NewsRows(P, KeyOfTitle(es[1].title),
                        Repeat(NewsRowOf(es[1].title), es[1].news)),
               Tail(es))

RankEntries == [title : RankTitles, shop : 1..MaxShop, news : 0..MaxNews]
RankInputs ==
  {es \in UNION {[1..n -> RankEntries] : n \in 1..Cardinality(RankTitles)} :
     \A i, j \in 1..Len(es) : i # j => es[i].title # es[j].title}

InitRank ==
  /\ prog = "entity_first"
  /\ pc = "score"
  /\ top_n \in 0..MaxTopN
  /\ yk = FALSE
  /\ \E es \in RankInputs :
       LET P == NewsAll(ShopAll(EmptyP, es), es)
       IN pool = P.pool /\ order = P.order /\ keys = P.order
  /\ ki = 1
  /\ ci = 1
  /\ cphase = "naver_news"
  /\ nrows = 0
  /\ items = <<>>
  /\ rows = <<>>
  /\ category_rules = NoRules
  /\ naver_scores = EmptyNaver
  /\ run1 = NoRun
  /\ run2 = NoRun
  /\ errors = <<>>

NextRank == EF_ScoreRecord \/ EF_Output
SpecRank == InitRank /\ [][NextRank]_vars

(***************************************************************************)
(* A pipeline run twice over the same rows in two row orders.  A run of    *)
(* entity_first_collector.main is steps 1 and 3 (the news and celebrity    *)
(* searches return no row); a run of live_collect is build_items.  The     *)
(* result of a run maps every key it holds to its mention count, its       *)
(* source_mix and its score.                                               *)
(***************************************************************************)
\* the videos the search for the key k returns: one, titled as the
\* shopping title of k
VideoTitleOf(k) == CHOOSE t \in RankTitles : KeyOfTitle(t) = k
VideosOf(k) ==
  IF \E t \in RankTitles : KeyOfTitle(t) = k
  THEN <<[title |-> VideoTitleOf(k), vid |-> ""]>> ELSE <<>>

\* step 3 for the key k over the videos vs
RECURSIVE YtRows(_, _, _)
YtRows(P, k, vs) ==
  IF vs = <<>> THEN P ELSE YtRows(YtStep(P, k, vs[1]), k, Tail(vs))

\* step 3 over the key list ks = list(pool.keys())[:40]
RECURSIVE YtAll(_, _)
YtAll(P, ks) ==
  IF ks = <<>> THEN P ELSE YtAll(YtRows(P, ks[1], VideosOf(ks[1])), Tail(ks))

\* steps 1 and 3 over the shopping rows rs
RunEF(rs) ==
  LET P == ShopRows(EmptyP, rs) IN YtAll(P, Take(P.order, YtKeyCut))

SummaryEF(P) ==
  [k \in DOMAIN P.pool |->
     [mention_count |-> P.pool[k].mention_count_24h,
      source_mix |-> P.pool[k].source_mix,
      score |-> ScoreOf(P.pool[k])]]

\* build_items over rs with top_n beyond the number of names
RunLC(rs, ups) == build_items(rs, MaxRows, EmptyNaver, NoRules, ups)

SummaryLC(its) ==
  [name \in {its[i].item_name : i \in 1..Len(its)} |->
     LET it == its[CHOOSE i \in 1..Len(its) : its[i].item_name = name]
     IN [mention_count |-> it.count, source_mix |-> it.source_mix,
         score |-> it.score]]

\* the row lists that hold the rows of rs, each as often as rs does
CountIn(rs, r) == Cardinality({i \in 1..Len(rs) : rs[i] = r})
Reorderings(rs) ==
  {q \in [1..Len(rs) -> {rs[i] : i \in 1..Len(rs)}] :
     \A i \in 1..Len(rs) : CountIn(q, rs[i]) = CountIn(rs, rs[i])}

OrderShopRows == {ShopRowOf(t) : t \in RankTitles \cup {T_SamsungTagged}}
OrderLcRows ==
  [title : {R_DysonDeal, R_Case, R_Robot}, link : {""},
   source : {"rss", "youtube"}]
RowLists(S) == UNION {[1..n -> S] : n \in 1..MaxRows}

InitOrder ==
  /\ prog \in {"entity_first", "live_collect"}
  /\ pc = "first"
  /\ top_n = MaxRows
  /\ yk = TRUE
  /\ pool = EmptyPool
  /\ order = <<>>
  /\ keys = <<>>
  /\ ki = 1
  /\ ci = 1
  /\ cphase = "naver_news"
  /\ nrows = 0
  /\ items = <<>>
  /\ rows \in RowLists(IF prog = "entity_first"
                       THEN OrderShopRows ELSE OrderLcRows)
  /\ category_rules = NoRules
  /\ naver_scores = EmptyNaver
  /\ run1 = NoRun
  /\ run2 = NoRun
  /\ errors = <<>>

\* entity_first_collector.main over rows
Order_FirstEF ==
  /\ prog = "entity_first" /\ pc = "first"
  /\ run1' = [input |-> rows, ties |-> {}, result |-> SummaryEF(RunEF(rows))]
  /\ pc' = "second"
  /\ UNCHANGED <<errors, run2, prog, top_n, yk, pool, order, keys, ki, ci, cphase,
                 nrows, items, rows, category_rules, naver_scores>>

\* entity_first_collector.main over the same rows in another order
Order_SecondEF ==
  /\ prog = "entity_first" /\ pc = "second"
  /\ \E q \in Reorderings(rows) :
       run2' = [input |-> q, ties |-> {}, result |-> SummaryEF(RunEF(q))]
  /\ pc' = "compared"
  /\ UNCHANGED <<errors, run1, prog, top_n, yk, pool, order, keys, ki, ci, cphase,
                 nrows, items, rows, category_rules, naver_scores>>

\* live_collect.build_items over rows; the scores that lie halfway between
\* two tenths are rounded as ties says
Order_FirstLC ==
  /\ prog = "live_collect" /\ pc = "first"
  /\ \E ups \in SUBSET TieNames(BuildRows(EmptyCounts, rows, NoRules),
                                EmptyNaver) :
       run1' = [input |-> rows, ties |-> ups,
                result |-> SummaryLC(RunLC(rows, ups))]
  /\ pc' = "second"
  /\ UNCHANGED <<errors, run2, prog, top_n, yk, pool, order, keys, ki, ci, cphase,
                 nrows, items, rows, category_rules, naver_scores>>

\* live_collect.build_items over the same rows in another order (the same
\* arithmetic rounds the same score the same way)
Order_SecondLC ==
  /\ prog = "live_collect" /\ pc = "second"
  /\ \E q \in Reorderings(rows) :
       run2' = [input |-> q, ties |-> run1.ties,
                result |-> SummaryLC(RunLC(q, run1.ties))]
  /\ pc' = "compared"
  /\ UNCHANGED <<errors, run1, prog, top_n, yk, pool, order, keys, ki, ci, cphase,
                 nrows, items, rows, category_rules, naver_scores>>

NextOrder ==
  \/ Order_FirstEF \/ Order_SecondEF
  \/ Order_FirstLC \/ Order_SecondLC
SpecOrder == InitOrder /\ [][NextOrder]_vars

(***************************************************************************)
(* Properties                                                              *)
(***************************************************************************)
Total(mix) ==
  LET RECURSIVE Sum(_)
      Sum(S) == IF S = {} THEN 0
                ELSE LET x == CHOOSE y \in S : TRUE IN mix[x] + Sum(S \ {x})
  IN Sum(DOMAIN mix)

NoRepeat(xs) == \A i, j \in 1..Len(xs) : i # j => xs[i] # xs[j]

IsEF == prog = "entity_first"
IsLC == prog = "live_collect"
\* live_collect: build_items has counted rows into pool
LcCounting == IsLC /\ pc \in {"build", "refill", "fallback", "done"}
\* live_collect: build_items has returned
LcBuilt == IsLC /\ pc \in {"refill", "fallback", "done"}

\* C1: every item of the items list of either collector (entity_first
\* main, live_collect build_items, the refill, coarse_fallback_items) has a
\* score between 0 and 100 (0..1000 tenths)
C1_ScoreInRange ==
  \A i \in 1..Len(items) : items[i].score >= 0 /\ items[i].score <= 1000

\* an emitted entity_first item whose uncapped formula exceeds 100
C1_Witness ==
  /\ IsEF /\ pc = "done"
  /\ \E i \in 1..Len(items) :
       /\ items[i].score = 1000
       /\ 450 + items[i].mention_count_24h * 70
              + Cardinality(DOMAIN items[i].source_mix) * 50
              + model_quality(items[i].model_name) * 8 > 1000

MixOf(mix, src) == IF src \in DOMAIN mix THEN mix[src] ELSE 0

C5_KeysWellFormed ==
  IsEF =>
    /\ \A k \in DOMAIN pool :
         /\ pool[k].brand # <<>>
         /\ pool[k].model_name # <<>>
         /\ k = pool[k].brand \o <<"|">> \o pool[k].model_name
    /\ NoRepeat(order)
    /\ {order[i] : i \in 1..Len(order)} = DOMAIN pool
    /\ \A i, j \in 1..Len(items) :
         i # j => items[i].entity_key # items[j].entity_key

\* entity_first has emitted two items
C5_Witness == IsEF /\ pc = "done" /\ Len(items) >= 2

\* C6: no step of entity_first removes a record or lowers its
\* mention_count_24h
C6_MentionMonotone ==
  [][IsEF => \A k \in DOMAIN pool :
       /\ k \in DOMAIN pool'
       /\ pool'[k].mention_count_24h >= pool[k].mention_count_24h]_vars

\* a record raised by three passes
C6_Witness ==
  /\ IsEF
  /\ \E k \in DOMAIN pool :
       /\ pool[k].mention_count_24h = 6
       /\ Cardinality(DOMAIN pool[k].source_mix) = 3

\* the links of the emitted items: none empty, none twice, at most cut
LinksOk(links, cut) ==
  /\ NoRepeat(links)
  /\ \A i \in 1..Len(links) : links[i] # ""
  /\ Len(links) <= cut

ItemCut(it) ==
  IF IsEF THEN EvidenceCut
  ELSE IF it.source = "multi" THEN LinkCut ELSE CoarseLinkCut

C8_FirstWriteWins ==
  [][IsEF => \A k \in DOMAIN pool :
       k \in DOMAIN pool' =>
         pool'[k].canonical_product_name = pool[k].canonical_product_name]_vars

\* C10: the list build_items returned, and the list after the refill, is in
\* non-increasing score order
C10_ScoreOrder ==
  (LcBuilt /\ \A i \in 1..Len(items) : items[i].source = "multi") =>
    \A i, j \in 1..Len(items) : i < j => items[i].score >= items[j].score

\* the place of the key k in the insertion order of the pool
PosOf(k) == CHOOSE i \in 1..Len(order) : order[i] = k

\* the keys whose records step 4 scores
Eligible == {k \in DOMAIN pool : pool[k].mention_count_24h >= 2}

\* the record under key k comes before the record under key l: by score
\* descending, then mention count descending, then insertion order
ComesBefore(k, l) ==
  LET sk == ScoreOf(pool[k])
      sl == ScoreOf(pool[l])
      mk == pool[k].mention_count_24h
      ml == pool[l].mention_count_24h
  IN \/ sk > sl
     \/ sk = sl /\ mk > ml
     \/ sk = sl /\ mk = ml /\ PosOf(k) < PosOf(l)

\* C9: the items entity_first writes are records of the pool with their
\* score and mention count, ordered by score descending, then mention
\* count descending, then insertion order, and they are the first top_n of
\* the eligible records in that order
C9_Ranking ==
  (IsEF /\ pc = "done") =>
    /\ Len(items) = Min(top_n, Cardinality(Eligible))
    /\ \A i \in 1..Len(items) :
         /\ items[i].entity_key \in Eligible
         /\ items[i].score = ScoreOf(pool[items[i].entity_key])
         /\ items[i].mention_count_24h =
              pool[items[i].entity_key].mention_count_24h
    /\ \A i, j \in 1..Len(items) :
         i < j => ComesBefore(items[i].entity_key, items[j].entity_key)
    /\ \A k \in Eligible :
         (\A i \in 1..Len(items) : items[i].entity_key # k) =>
           \A i \in 1..Len(items) : ComesBefore(items[i].entity_key, k)

\* two items of equal score of which the one inserted later has the higher
\* mention count and comes first
C9_Witness ==
  /\ IsEF /\ pc = "done" /\ Len(items) >= 2
  /\ items[1].score = items[2].score
  /\ items[1].mention_count_24h > items[2].mention_count_24h
  /\ PosOf(items[1].entity_key) > PosOf(items[2].entity_key)

\* C3: the two runs over the same rows in two orders hold the same keys,
\* each with the same mention count, source_mix and score
C3_OrderIndependent == pc = "compared" => run1.result = run2.result

(***************************************************************************)
(* Extraction and validation of single titles                              *)
(***************************************************************************)
K_SamsungRF85 == entity_key(<<"k_sam","k_seong">>, <<"R","F","8","5">>)

\* C11: the step of the shopping pass for a row titled
\* "삼성 BESPOKE 냉장고 RF85" merges the row into the record of the key
\* 삼성|RF85: after it the pool holds the key, with a mention count 2 above
\* the one before
C11_BespokeMerged ==
  [][\A link \in LinkChoices(pool) :
       (/\ IsEF /\ pc = "shop" /\ ci <= MaxCats /\ nrows' = nrows + 1
        /\ [pool |-> pool', order |-> order']
             = ShopStep([pool |-> pool, order |-> order],
                        [cat |-> SHOP_CATEGORIES[ci], title |-> T_Bespoke,
                         link |-> link]))
       => /\ K_SamsungRF85 \in DOMAIN pool'
          /\ pool'[K_SamsungRF85].mention_count_24h
               = (IF K_SamsungRF85 \in DOMAIN pool
                  THEN pool[K_SamsungRF85].mention_count_24h ELSE 0) + 2]_vars

\* the iterations of the four passes of entity_first for a row titled
\* "정치 속보 국회 대선", its description one of ds where the pass reads
\* one, leave the pool as it is
NoiseRowIgnored(ds) ==
  LET P == [pool |-> pool, order |-> order] IN
  \A link \in LinkChoices(pool) :
    /\ \A i \in 1..Len(SHOP_CATEGORIES) :
         ShopStep(P, [cat |-> SHOP_CATEGORIES[i], title |-> T_Politics,
                      link |-> link]) = P
    /\ \A k \in DOMAIN pool :
         /\ NewsStep(P, k, [title |-> T_Politics, link |-> link]) = P
         /\ YtStep(P, k, [title |-> T_Politics, vid |-> link]) = P
    /\ \A d \in ds, src \in {"naver_news", "naver_blog"} :
         CelebStep(P, [celeb |-> CelebQuery(1)[1], term |-> CelebQuery(1)[2],
                       src |-> src, title |-> T_Politics, desc |-> d,
                       link |-> link]) = P

\* the iteration of build_items for a row titled "정치 속보 국회 대선"
\* leaves counts, links, titles and src_counts as they are
NoiseRowNotCounted ==
  (IsLC /\ pc = "build" /\ ki <= Len(rows) /\ rows[ki].title = R_Politics)
    => UNCHANGED <<pool, order>>

CallInit(fn, inputs) ==
  /\ prog = fn
  /\ pc = "call"
  /\ run1 \in {[input |-> x, ties |-> {}, result |-> <<>>] : x \in inputs}
  /\ run2 = NoRun
  /\ errors = <<>>
  /\ top_n = 0
  /\ yk = FALSE
  /\ pool = EmptyPool
  /\ order = <<>>
  /\ keys = <<>>
  /\ ki = 1
  /\ ci = 1
  /\ cphase = "naver_news"
  /\ nrows = 0
  /\ items = <<>>
  /\ rows = <<>>
  /\ category_rules = NoRules
  /\ naver_scores = EmptyNaver

\* the call returns the value result
CallReturn(result) ==
  /\ pc = "call"
  /\ run1' = [run1 EXCEPT !.result = result]
  /\ pc' = "returned"
  /\ UNCHANGED <<errors, run2, top_n, yk, pool, order, keys, ki, ci, cphase, nrows,
                 items, rows, category_rules, naver_scores, prog>>

Returned(fn) == prog = fn /\ pc = "returned"

\* brands and models for valid_entity: empty, of the lexicons, with a NOISE
\* token, numeric, alphabetic, mixed
ValidBrands ==
  {<<>>, <<"k_sam","k_seong">>, <<"L","G">>, <<"a","1","b">>,
   <<"k_jeong","k_chi","k_sam","k_seong">>, <<"k_he","k_ra">>}
ValidModels ==
  {<<>>, <<"R","F","8","5">>, <<"1","2","3","4">>, <<"1","2">>,
   <<"B","E","S","P","O","K","E">>, <<"2","9","C","M">>, <<"L","G">>,
   <<"A","1","B">>, <<"O","L","E","D">>, <<"O","L","E","D","5","5">>,
   <<"k_nyu","k_seu","X","1">>, <<"A","1">>, <<"k_ku","k_syeon">>}
    \cup {BEAUTY_LINE_KEYS[i] : i \in 1..Len(BEAUTY_LINE_KEYS)}

InitValid == InitEF \/ CallInit("valid_entity", ValidBrands \X ValidModels)
Call_valid_entity ==
  /\ prog = "valid_entity"
  /\ CallReturn(valid_entity(run1.input[1], run1.input[2]))
NextValid == NextEF \/ Call_valid_entity
SpecValid == InitValid /\ [][NextValid]_vars

\* the quality the claim gives a model that is not empty, in tenths
StatedQuality(model) ==
  IF (\E i \in 1..Len(model) : IsAlpha(model[i]))
     /\ (\E i \in 1..Len(model) : IsDigit(model[i])) THEN 9
  ELSE IF (\E i \in 1..Len(model) : IsDigit(model[i])) /\ Len(model) >= 4 THEN 6
  ELSE 3

\* the shapes the claim lists
Rejected(brand, model) ==
  \/ brand = <<>> \/ model = <<>>
  \/ \E n \in NOISE : In(n, brand) \/ In(n, model)
  \/ StrIsDigit(model)
  \/ model \in MODEL_STOP \cup MODEL_BLACKLIST
  \/ model = ToUpper(brand)
  \/ Len(model) \in 2..6 /\ \A i \in 1..Len(model) : IsAlpha(model[i])
  \/ StatedQuality(model) * 10 < 55

\* C13: valid_entity returns False for a brand and model of one of the
\* listed shapes, model_quality of a model that is not empty is the stated
\* 0.9, 0.6 or 0.3, and no record of the pool has a brand and model of one
\* of the shapes
C13_Rejected ==
  /\ Returned("valid_entity") =>
       /\ Rejected(run1.input[1], run1.input[2]) => run1.result = FALSE
       /\ run1.input[2] # <<>> =>
            model_quality(run1.input[2]) = StatedQuality(run1.input[2])
  /\ IsEF => \A k \in DOMAIN pool : ~Rejected(pool[k].brand, pool[k].model_name)

\* valid_entity has returned False for a model of letters and digits that
\* is the brand in upper case and of no other listed shape
C13_Witness ==
  /\ Returned("valid_entity")
  /\ run1.input = <<<<"a","1","b">>, <<"A","1","B">>>>
  /\ run1.result = FALSE

\* texts for extract_model: the titles of the model, a model code in lower
\* case, and the words the function discards before a model code
X_LowerCode == <<"k_sam","k_seong"," ","r","f","8","5">>
X_NewsCode == <<"N","E","W","S"," ","R","F","8","5">>
X_LiveShade == <<"L","I","V","E"," ","5","5","A","B">>
X_TwoCodes == <<"5","5","A","B"," ","R","F","8","5"," ","A","B","-","1","2">>
ExtractTexts == AllTitles \cup {X_LowerCode, X_NewsCode, X_LiveShade, X_TwoCodes}

Call_extract_model ==
  /\ prog = "extract_model"
  /\ CallReturn(extract_model(run1.input))


\* the extraction the claim states: the three shapes in the order of the
\* list over the text t, the first match of a shape that is acceptable
StatedExtract(t) ==
  LET Rule3(x3) == IF ModelTokenOk(x3) THEN x3 ELSE <<>>
      Rule2(x2) == IF ModelTokenOk(x2) THEN x2 ELSE Rule3(Search(t, Pattern3))
      Rule1(x1) == IF ModelTokenOk(x1) THEN x1 ELSE Rule2(Search(t, Pattern2))
  IN Rule1(Search(t, Pattern1))

\* C14: extract_model returns what the three shape rules, tried in the order
\* of the list with a match shorter than 3 characters or equal to 'news' or
\* 'live' discarded, give on the normalized text in upper case
C14_ExtractUpper ==
  Returned("extract_model") =>
    run1.result = StatedExtract(ToUpper(normalize(run1.input)))

\* live_collect.detect_brand: BRAND_HINTS is a set, and the order
\*  for b in BRAND_HINTS  visits it in is not fixed by the program (it
\* changes with the hash seed of the interpreter): the value returned is any
\* of the brands that occur in the normalized text, "" when none occurs
lc_detect_brand(text) ==
  LET OrNone(H) == IF H = {} THEN {<<>>} ELSE H
      Occur(t) == OrNone({b \in BRAND_HINTS : In(b, t)})
  IN Occur(normalize_text(text))

\* texts for the two detect_brand: with no brand, one brand, two brands
B_TwoBrands == <<"L","G"," ","k_sam","k_seong"," ","T","V">>
BrandTexts == AllTitles \cup LcAllTitles \cup {B_TwoBrands}

Call_detect_brand ==
  /\ prog = "detect_brand"
  /\ CallReturn(detect_brand(run1.input))

\* live_collect.detect_brand on a text, and on the same text in another run
Call_lc_detect_brand ==
  /\ prog = "live_collect.detect_brand" /\ pc = "call"
  /\ \E b \in lc_detect_brand(run1.input) :
       run1' = [run1 EXCEPT !.result = b]
  /\ pc' = "again"
  /\ UNCHANGED <<errors, run2, top_n, yk, pool, order, keys, ki, ci, cphase, nrows,
                 items, rows, category_rules, naver_scores, prog>>

Call_lc_detect_brand_again ==
  /\ prog = "live_collect.detect_brand" /\ pc = "again"
  /\ \E b \in lc_detect_brand(run1.input) :
       run2' = [input |-> run1.input, ties |-> {}, result |-> b]
  /\ pc' = "returned"
  /\ UNCHANGED <<errors, run1, top_n, yk, pool, order, keys, ki, ci, cphase, nrows,
                 items, rows, category_rules, naver_scores, prog>>

\* C15: entity_first_collector.detect_brand returns the first entry of
\* BRANDS, in the order of the list, that occurs in the normalized text and
\* "" when none occurs; live_collect.detect_brand returns a brand of
\* BRAND_HINTS that occurs in the normalized text, "" when none occurs, and
\* the same one in every run on the same text
C15_FirstBrand ==
  /\ Returned("detect_brand") =>
       IF run1.result = <<>>
       THEN \A i \in 1..Len(BRANDS) : ~In(BRANDS[i], normalize(run1.input))
       ELSE \E i \in 1..Len(BRANDS) :
              /\ run1.result = BRANDS[i]
              /\ In(BRANDS[i], normalize(run1.input))
              /\ \A j \in 1..(i - 1) : ~In(BRANDS[j], normalize(run1.input))
  /\ Returned("live_collect.detect_brand") =>
       /\ IF run1.result = <<>>
          THEN \A b \in BRAND_HINTS : ~In(b, normalize_text(run1.input))
          ELSE run1.result \in BRAND_HINTS
               /\ In(run1.result, normalize_text(run1.input))
       /\ run2.result = run1.result

\* a rules file with two categories, and a name on which they score the same
RulesTwo ==
  [categories |->
     <<[name |-> <<"k_ga","k_jeon">>,
        hints |-> <<<<"k_cheong","k_so","k_gi">>>>,
        brands |-> <<<<"k_da","k_i","k_seun">>>>],
       [name |-> <<"k_ri","k_bing">>,
        hints |-> <<<<"k_ke","k_i","k_seu">>>>,
        brands |-> <<<<"k_da","k_i","k_seun">>, <<"k_a","k_i","k_pon">>>>]>>,
   noise_words |-> {}]
N_CleanerCase == <<"k_cheong","k_so","k_gi"," ","k_ke","k_i","k_seu">>
CategoryInputs ==
  (LcAllTitles \cup {N_CleanerCase}) \X {NoRules, RulesA, RulesTwo}

Call_detect_category ==
  /\ prog = "detect_category"
  /\ CallReturn(detect_category(run1.input[1], run1.input[2]))

\* the category the claim states for the normalized text: the one whose
\* score is above that of every other category, "기타" when there is none
\* or every score is 0
StatedCategory(text, cats) ==
  LET Strict(i) == /\ CategoryHits(cats[i], text) > 0
                   /\ \A j \in 1..Len(cats) :
                        j # i => CategoryHits(cats[j], text)
                                   < CategoryHits(cats[i], text)
  IN IF \E i \in 1..Len(cats) : Strict(i)
     THEN cats[CHOOSE i \in 1..Len(cats) : Strict(i)].name
     ELSE Gita

\* C16: detect_category returns the category whose score (+2 for a hint,
\* +1 for a brand that occurs in the normalized name) is strictly above
\* that of every other category, and "기타" when the highest score is
\* shared or every score is 0
C16_StrictlyHighest ==
  Returned("detect_category") =>
    run1.result = StatedCategory(normalize_text(run1.input[1]),
                                 CategoriesOf(run1.input[2]))

\* texts for the two normalizers: empty, blank, with brackets and
\* parentheses, with tags, with punctuation, hyphen and plus
N_Blank == <<" ", " ">>
N_Signs == <<"A","-","1","+"," ","!",",">>
N_EmptyBrackets == <<"[","]"," ","("," ",")">>
N_Spans == <<"a"," "," ","[","b","]"," ","(","c",")"," ","d">>
NormTexts ==
  AllTitles \cup LcAllTitles \cup {<<>>, N_Blank, N_Signs, N_EmptyBrackets, N_Spans}

Call_normalize ==
  /\ prog = "normalize"
  /\ CallReturn(normalize(run1.input))

Call_normalize_text ==
  /\ prog = "normalize_text"
  /\ CallReturn(normalize_text(run1.input))

\* the places of x from i to j are a span  o ... c  with one or more
\* characters other than c between o and c
SpanAt(x, o, c, i, j) ==
  /\ x[i] = o /\ x[j] = c /\ j > i + 1
  /\ \A m \in (i + 1)..(j - 1) : x[m] # c

\* the place m of x lies in a bracketed or parenthetical span
InSpan(x, m) ==
  \E i \in 1..m, j \in m..Len(x) :
    SpanAt(x, "[", "]", i, j) \/ SpanAt(x, "(", ")", i, j)

\* the characters of x outside of every span
OutsideChars(x) == {x[m] : m \in {n \in 1..Len(x) : ~InSpan(x, n)}}

\* what the claim states of the result y of a normalizer on the input x
NormalForm(x, y) ==
  /\ x = <<>> => y = <<>>
  /\ \A i \in 1..Len(y) :
       \/ IsDigit(y[i]) \/ y[i] \in Upper \cup Lower \/ IsHangul(y[i])
       \/ y[i] \in {" ", "-", "+"}
  /\ \A i \in 1..(Len(y) - 1) : ~(y[i] = " " /\ y[i + 1] = " ")
  /\ y # <<>> => y[1] # " " /\ y[Len(y)] # " "
  /\ \A i \in 1..Len(y) : y[i] = " " \/ y[i] \in OutsideChars(x)

\* C17: normalize_text and normalize are idempotent, map the empty string to
\* itself, and return a text of digits, ASCII letters, Hangul syllables,
\* single spaces, hyphen and plus without a space at either end in which
\* nothing of a bracketed or parenthetical span of the input is left
C17_Normalized ==
  /\ Returned("normalize_text") =>
       /\ normalize_text(run1.result) = run1.result
       /\ NormalForm(run1.input, run1.result)
  /\ Returned("normalize") =>
       /\ normalize(run1.result) = run1.result
       /\ NormalForm(run1.input, run1.result)

\* C18: no item of the list live_collect.main writes, whether build_items,
\* the refill or coarse_fallback_items made it, has a name whose
\* product_likelihood is below -0.3 (-3 tenths)
C18_LikelihoodFloor ==
  (IsLC /\ pc = "done") =>
    \A i \in 1..Len(items) : product_likelihood(items[i].item_name) >= -3

(***************************************************************************)
(* Fetches that fail.  A fetch that raises (a timeout, a connection error, *)
(* raise_for_status) is a step of its own; a fetch that answers with a     *)
(* status other than 200 returns no row and is the step that ends the      *)
(* rows of that fetch (EF_ShopNextCat, EF_NewsNextKey, EF_CelebNext,       *)
(* EF_YtNextKey, LC_YtDone, LC_Datalab with no score).                     *)
(***************************************************************************)
\* the entry of errors for the source src
ErrorOf(src) == [source |-> src]

\* the index in RSS_SOURCES of the last feed that errors names, 0 if none
LastFailedRss ==
  LET Failed == {i \in 1..Len(RSS_SOURCES) :
                   \E j \in 1..Len(errors) : errors[j].source = RSS_SOURCES[i]}
  IN IF Failed = {} THEN 0 ELSE CHOOSE i \in Failed : \A j \in Failed : j <= i

\* entity_first_collector.main: requests.get of naver_shop, naver_news,
\* naver_blog or yt_search raises; no function of the script has a handler,
\* the exception leaves main and the payload is never written
EF_FetchRaise ==
  /\ prog = "entity_first" /\ pc \in {"shop", "news", "celeb", "yt"}
  /\ pc' = "aborted"
  /\ UNCHANGED <<errors, run1, run2, prog, top_n, yk, pool, order, keys, ki,
                 ci, cphase, nrows, items, rows, category_rules, naver_scores>>

\* live_collect.main 1): fetch_rss(src) raises for a feed after those that
\* failed before; the feed gives no row (when every feed failed there is no
\* RSS row) and errors gets its entry
LC_RssFail ==
  /\ prog = "live_collect" /\ pc = "rss"
  /\ \E i \in (LastFailedRss + 1)..Len(RSS_SOURCES) :
       errors' = Append(errors, ErrorOf(RSS_SOURCES[i]))
  /\ (Len(errors) + 1 = Len(RSS_SOURCES)) => rows = <<>>
  /\ UNCHANGED <<run1, run2, prog, pc, top_n, yk, pool, order, keys, ki, ci,
                 cphase, nrows, items, rows, category_rules, naver_scores>>

\* live_collect.main 3): a YouTube fetch raises; yt_recent stays [] and the
\* rows the searches before it returned are lost
LC_YtFail ==
  /\ prog = "live_collect" /\ pc = "youtube"
  /\ rows' = RssRows(rows)
  /\ errors' = Append(errors, ErrorOf("youtube"))
  /\ pc' = "merge"
  /\ UNCHANGED <<run1, run2, prog, top_n, yk, pool, order, keys, ki, ci,
                 cphase, nrows, items, category_rules, naver_scores>>

\* live_collect.main 5): datalab_scores raises; naver_scores stays {}
LC_DatalabFail ==
  /\ prog = "live_collect" /\ pc = "merge"
  /\ rows # <<>>
  /\ naver_scores' = EmptyNaver
  /\ errors' = Append(errors, ErrorOf("naver_datalab"))
  /\ pc' = "build" /\ ki' = 1
  /\ UNCHANGED <<run1, run2, prog, top_n, yk, pool, order, keys, ci, cphase,
                 nrows, items, rows, category_rules>>

\* the runs with --top-n 1 and no category rules, whose fetches may fail
InitFetch == Init /\ top_n = 1 /\ category_rules = NoRules
NextFetch ==
  \/ NextEF \/ NextLC
  \/ EF_FetchRaise
  \/ LC_RssFail \/ LC_YtFail \/ LC_DatalabFail
SpecFetch == InitFetch /\ [][NextFetch]_vars

\* a step in which one fetch raises
FetchFails == EF_FetchRaise \/ LC_RssFail \/ LC_YtFail \/ LC_DatalabFail

\* the step leaves the run running, with one more entry in errors and no
\* row or record more than before
FailureSurvived ==
  /\ pc' # "aborted"
  /\ Len(errors') = Len(errors) + 1
  /\ Len(rows') <= Len(rows)
  /\ pool' = pool

\* live_collect aborts exactly when merged_rows is empty
AbortsIffNoRow ==
  (prog = "live_collect" /\ pc = "merge") => (pc' = "aborted" <=> rows = <<>>)

\* C19: a fetch that raises never aborts a run of either collector: the
\* source adds no row, the failure is recorded in errors and the run goes
\* on; a live_collect run aborts if and only if no source gave a recent row
C19_FetchFailure ==
  [][(FetchFails => FailureSurvived) /\ AbortsIffNoRow]_vars

\* the same for the steps of live_collect alone
LC_FetchFailure ==
  [][(prog = "live_collect" /\ FetchFails => FailureSurvived)
     /\ AbortsIffNoRow]_vars

(***************************************************************************)
(* live_collect.build_entity_candidates                                    *)
(***************************************************************************)
AsciiAlpha(c) == c \in Upper \cup Lower

\* [A-Za-z0-9-]
ModelChar(c) == AsciiAlpha(c) \/ IsDigit(c) \/ c = "-"

\* the length of the run of ASCII letters that p starts with
LeadLetters(p) ==
  CHOOSE k \in 0..Len(p) :
    /\ \A i \in 1..k : AsciiAlpha(p[i])
    /\ (k = Len(p) \/ ~AsciiAlpha(p[k + 1]))

\* re.fullmatch(r"[A-Za-z]{1,4}\d{1,5}[A-Za-z0-9-]*", p): the digits after
\* the fifth are matched by the last class, so p is one to four letters, a
\* digit, and then characters of the last class
ModelPattern(p) ==
  LET Starts(k) == /\ 1 <= k /\ k <= 4 /\ k < Len(p)
                   /\ IsDigit(p[k + 1])
  IN /\ Starts(LeadLetters(p))
     /\ \A i \in 1..Len(p) : ModelChar(p[i])

\* re.fullmatch(r"[A-Za-z0-9-]{3,}", p) and a digit and a letter in p
MixedPattern(p) ==
  /\ Len(p) >= 3
  /\ \A i \in 1..Len(p) : ModelChar(p[i])
  /\ \E i \in 1..Len(p) : IsDigit(p[i])
  /\ \E i \in 1..Len(p) : IsAlpha(p[i])

extract_model_tokens(text) ==
  LET IsModel(p) == ModelPattern(p) \/ MixedPattern(p)
  IN Take(Dedupe(SelectSeq(Split(normalize_text(text)), IsModel)), 3)

\* the confidences in hundredths
CandidateOf(brand, model, product_name, confidence) ==
  [brand |-> brand, model |-> model, product_name |-> product_name,
   confidence |-> confidence]

\* f"{brand} {name}".strip()
BrandedName(brand, name) == Strip(brand \o <<" ">> \o name)

\* build_entity_candidates(title, name) with more than two models kept,
\* models[:3]
build_entity_candidates_three(title, name, brand) ==
  LET Cands(models) ==
        IF brand # <<>> /\ models # <<>>
        THEN [i \in 1..Len(models) |->
                CandidateOf(brand, models[i], BrandedName(brand, name), 85)]
        ELSE IF brand # <<>>
        THEN <<CandidateOf(brand, <<>>, BrandedName(brand, name), 70)>>
        ELSE IF models # <<>>
        THEN [i \in 1..Len(models) |->
                CandidateOf(<<>>, models[i], name, 65)]
        ELSE <<CandidateOf(<<>>, <<>>, name, 50)>>
  IN Cands(Take(extract_model_tokens(title), 3))

\* build_entity_candidates(title, name); brand is the value that
\* detect_brand(title) returned, one of lc_detect_brand(title)
build_entity_candidates(title, name, brand) ==
  LET Cands(models) ==
        IF brand # <<>> /\ models # <<>>
        THEN [i \in 1..Len(models) |->
                CandidateOf(brand, models[i], BrandedName(brand, name), 85)]
        ELSE IF brand # <<>>
        THEN <<CandidateOf(brand, <<>>, BrandedName(brand, name), 70)>>
        ELSE IF models # <<>>
        THEN [i \in 1..Len(models) |->
                CandidateOf(<<>>, models[i], name, 65)]
        ELSE <<CandidateOf(<<>>, <<>>, name, 50)>>
  IN Cands(Take(extract_model_tokens(title), 2))

\* titles for build_entity_candidates: a brand with three, two (one of them
\* twice), one and no model token; no brand with three, one and no token;
\* tokens of the second pattern; two brands
E_BrandThree == <<"k_da","k_i","k_seun"," ","V","1","2"," ","V","1","5"," ","V","8">>
E_BrandTwice == <<"L","G"," ","S","8"," ","S","8"," ","Q","5","+">>
E_Three == <<"V","1","2"," ","V","1","5"," ","V","8"," ","k_hu","k_gi">>
E_Mixed == <<"9","8","0","0","X"," ","A","B","C","D","E","1"," ","9","8","0","0">>
E_Hyphen == <<"k_so","k_ni"," ","W","H","-","1","0","0","0","X","M","5">>
CandTitles ==
  {E_BrandThree, E_BrandTwice, E_Three, E_Mixed, E_Hyphen, T_DysonV12,
   T_NoBrand, B_TwoBrands, R_Dyson, R_DysonDeal, R_Politics}
CandNames == {<<>>, <<"k_cheong","k_so","k_gi">>, <<"V","1","2">>}

Call_build_entity_candidates ==
  /\ prog = "build_entity_candidates"
  /\ \E brand \in lc_detect_brand(run1.input[1]) :
       CallReturn(build_entity_candidates(run1.input[1], run1.input[2],
                                          brand))

\* what build_entity_candidates is said to return for the brands B that
\* may be detected, the model tokens M and the name
StatedCandidates(c, B, M, name) ==
  LET n == Min(2, Len(M)) IN
  /\ Len(c) \in {1, 2}
  /\ (B # {} /\ M # <<>>) =>
       /\ Len(c) = n
       /\ \E b \in B : \A i \in 1..n :
            c[i].brand = b /\ c[i].model = M[i] /\ c[i].confidence = 85
  /\ (B # {} /\ M = <<>>) =>
       /\ Len(c) = 1
       /\ c[1].brand \in B /\ c[1].model = <<>> /\ c[1].confidence = 70
  /\ (B = {} /\ M # <<>>) =>
       /\ Len(c) = n
       /\ \A i \in 1..n :
            c[i].brand = <<>> /\ c[i].model = M[i] /\ c[i].confidence = 65
  /\ (B = {} /\ M = <<>>) =>
       c = <<CandidateOf(<<>>, <<>>, name, 50)>>

\* C20: build_entity_candidates returns one or two candidates: with a brand
\* and model tokens, the brand with each of the first two tokens at 0.85;
\* with a brand only, the brand with model "" at 0.7; with tokens only, each
\* of the first two tokens with brand "" at 0.65; with neither, one
\* candidate with brand "" and model "" that carries only the name, at 0.5
C20_OneOrTwoCandidates ==
  Returned("build_entity_candidates") =>
    StatedCandidates(run1.result,
                     lc_detect_brand(run1.input[1]) \ {<<>>},
                     extract_model_tokens(run1.input[1]), run1.input[2])

\* a title with a brand and three model tokens has given two candidates
C20_Witness ==
  /\ Returned("build_entity_candidates")
  /\ run1.input[1] = E_BrandThree
  /\ Len(extract_model_tokens(run1.input[1])) = 3
  /\ Len(run1.result) = 2
  /\ run1.result[2].model = <<"V","1","5">>

(***************************************************************************)
(* live_collect.extract_category_entity_candidates                         *)
(***************************************************************************)
\* round(x, 2) for x in thousandths.  The sums base + boost of line 130 that
\* end in 5 thousandths are no ties as doubles: those of TiesUp lie above
\* the decimal value and round up (0.5 + 0.9 * 0.15 gives 0.64), the others
\* lie below it and round down (0.5 + 0.5 * 0.15 gives 0.57)
TiesUp == {635, 695, 785, 895}
Round2(x) ==
  IF x % 10 = 5
  THEN (IF x \in TiesUp THEN x \div 10 + 1 ELSE x \div 10)
  ELSE (x + 5) \div 10

\* line 130 without min(0.95, ...)
BoostedUncapped(confidence, cms) ==
  IF cms > 0
  THEN Round2(confidence * 10 + Min(200, 15 * cms))
  ELSE confidence

\* the confidence of a candidate, in hundredths, for the base confidence in
\* hundredths and the category match score cms in tenths
Boosted(confidence, cms) ==
  IF cms > 0
  THEN Round2(Min(950, confidence * 10 + Min(200, 15 * cms)))
  ELSE confidence

\* brand is the value that detect_brand(title) returned
extract_category_entity_candidates(title, name, rules, brand) ==
  LET WithCategory(c, category) ==
        [brand |-> c.brand, model |-> c.model,
         product_name |-> c.product_name, category |-> category,
         confidence |->
           Boosted(c.confidence,
                   category_match_score(c.product_name, category, rules))]
      Out(base, category) ==
        [i \in 1..Len(base) |-> WithCategory(base[i], category)]
  IN Out(build_entity_candidates(title, name, brand),
         detect_category(title \o <<" ">> \o name, rules))

\* inputs of category_match_score: names, the categories of RulesTwo and
\* the default category, rule sets
ScoreInputs ==
  (LcAllTitles \cup CandNames \cup {N_CleanerCase})
    \X {Gita, RulesTwo.categories[1].name, RulesTwo.categories[2].name}
    \X {NoRules, RulesA, RulesTwo}

Call_category_match_score ==
  /\ prog = "category_match_score"
  /\ CallReturn(category_match_score(run1.input[1], run1.input[2],
                                     run1.input[3]))

\* names that bring the sums of line 130 to 5 thousandths
M_Case == <<"k_ke","k_i","k_seu">>
M_DysonCase == <<"k_da","k_i","k_seun"," ","k_ke","k_i","k_seu">>
CategoryCandInputs ==
  CandTitles \X (CandNames \cup {M_Case, M_DysonCase})
    \X {NoRules, RulesA, RulesTwo}

Call_extract_category_entity_candidates ==
  /\ prog = "extract_category_entity_candidates"
  /\ \E brand \in lc_detect_brand(run1.input[1]) :
       CallReturn(extract_category_entity_candidates(
                    run1.input[1], run1.input[2], run1.input[3], brand))

\* the candidates of the call: as many as build_entity_candidates gives,
\* each with a confidence of at most 0.95 and not below its base confidence
ConfidenceBounded(out, title, name) ==
  \A i \in 1..Len(out) :
    /\ 0 <= out[i].confidence /\ out[i].confidence <= 100
    /\ out[i].confidence <= 95
    /\ out[i].confidence >=
         build_entity_candidates(title, name, out[i].brand)[i].confidence

\* C21: category_match_score lies in [0, 1.5], and every candidate of
\* extract_category_entity_candidates has a confidence in [0, 1] that is at
\* most 0.95 and not lower than the candidate's base confidence
C21_ConfidenceBounds ==
  /\ Returned("category_match_score") =>
       (0 <= run1.result /\ run1.result <= 15)
  /\ Returned("extract_category_entity_candidates") =>
       ConfidenceBounded(run1.result, run1.input[1], run1.input[2])

\* a brand and model candidate whose name matches a hint, a brand and the
\* generic suffixes has been boosted from 0.85 to the cap
C21_Witness ==
  /\ Returned("extract_category_entity_candidates")
  /\ run1.input = <<T_DysonV12, <<"k_cheong","k_so","k_gi">>, RulesA>>
  /\ category_match_score(run1.result[1].product_name,
                          run1.result[1].category, RulesA) = 15
  /\ run1.result[1].confidence = 95

(***************************************************************************)
(* The evidence links of two runs over the same rows in the same order.    *)
(* A run of entity_first_collector.main is step 1 and the emission of step *)
(* 4; a run of live_collect is build_items.  The result of a run maps      *)
(* every key to the evidence_links of its item.                            *)
(***************************************************************************)
LinkShopRows ==
  [cat : {SHOP_CATEGORIES[1]}, title : {T_SamsungRF85, T_LgOled},
   link : {"", "u1", "u2", "u3"}]
LinkLcRows ==
  [title : {R_Robot, R_Case}, link : {"", "u1", "u2", "u3"},
   source : {"rss"}]

\* the lists that step 4 may emit per key: list(obj['evidence_links'])[:6]
\* of a set (line 334)
EmittedLinksEF(P) ==
  {f \in [DOMAIN P.pool ->
            UNION {SetListCut(P.pool[k].evidence_links, EvidenceCut) :
                     k \in DOMAIN P.pool}] :
     \A k \in DOMAIN P.pool :
       f[k] \in SetListCut(P.pool[k].evidence_links, EvidenceCut)}

\* links[name][:5] of the items of build_items (line 624)
EmittedLinksLC(its) ==
  [name \in {its[i].item_name : i \in 1..Len(its)} |->
     its[CHOOSE i \in 1..Len(its) : its[i].item_name = name].evidence_links]

InitLinks ==
  /\ prog \in {"entity_first", "live_collect"}
  /\ pc = "first"
  /\ top_n = MaxRows
  /\ yk = FALSE
  /\ pool = EmptyPool
  /\ order = <<>>
  /\ keys = <<>>
  /\ ki = 1
  /\ ci = 1
  /\ cphase = "naver_news"
  /\ nrows = 0
  /\ items = <<>>
  /\ rows \in RowLists(IF prog = "entity_first"
                       THEN LinkShopRows ELSE LinkLcRows)
  /\ category_rules = NoRules
  /\ naver_scores = EmptyNaver
  /\ run1 = NoRun
  /\ run2 = NoRun
  /\ errors = <<>>

\* entity_first_collector.main over rows
Links_FirstEF ==
  /\ prog = "entity_first" /\ pc = "first"
  /\ \E f \in EmittedLinksEF(ShopRows(EmptyP, rows)) :
       run1' = [input |-> rows, ties |-> {}, result |-> f]
  /\ pc' = "second"
  /\ UNCHANGED <<errors, run2, prog, top_n, yk, pool, order, keys, ki, ci,
                 cphase, nrows, items, rows, category_rules, naver_scores>>

\* entity_first_collector.main over the same rows, in another process
Links_SecondEF ==
  /\ prog = "entity_first" /\ pc = "second"
  /\ \E f \in EmittedLinksEF(ShopRows(EmptyP, rows)) :
       run2' = [input |-> rows, ties |-> {}, result |-> f]
  /\ pc' = "compared"
  /\ UNCHANGED <<errors, run1, prog, top_n, yk, pool, order, keys, ki, ci,
                 cphase, nrows, items, rows, category_rules, naver_scores>>

\* live_collect.build_items over rows
Links_FirstLC ==
  /\ prog = "live_collect" /\ pc = "first"
  /\ run1' = [input |-> rows, ties |-> {},
              result |-> EmittedLinksLC(RunLC(rows, {}))]
  /\ pc' = "second"
  /\ UNCHANGED <<errors, run2, prog, top_n, yk, pool, order, keys, ki, ci,
                 cphase, nrows, items, rows, category_rules, naver_scores>>

\* live_collect.build_items over the same rows, in another process
Links_SecondLC ==
  /\ prog = "live_collect" /\ pc = "second"
  /\ run2' = [input |-> rows, ties |-> {},
              result |-> EmittedLinksLC(RunLC(rows, {}))]
  /\ pc' = "compared"
  /\ UNCHANGED <<errors, run1, prog, top_n, yk, pool, order, keys, ki, ci,
                 cphase, nrows, items, rows, category_rules, naver_scores>>

NextLinks ==
  \/ Links_FirstEF \/ Links_SecondEF
  \/ Links_FirstLC \/ Links_SecondLC
SpecLinks == InitLinks /\ [][NextLinks]_vars

\* the key a row is merged into
KeyOfRow(r) ==
  IF prog = "entity_first" THEN KeyOfTitle(r.title)
  ELSE (CHOOSE c \in RowCandidatesOf[<<r.title, NoRules>>] : TRUE).name

\* the first distinct non-empty links of the rows of key k, in the order of
\* the rows, up to the cap
FirstLinks(rs, k) ==
  LET OfKey(r) == KeyOfRow(r) = k /\ r.link # ""
      LinksOf(xs) == [i \in 1..Len(xs) |-> xs[i].link]
  IN Take(Dedupe(LinksOf(SelectSeq(rs, OfKey))),
          IF prog = "entity_first" THEN EvidenceCut ELSE LinkCut)

\* C22: the evidence_links emitted for a record are its first distinct
\* non-empty links in the order of their first insertion, up to the cap, and
\* two runs over the same rows in the same order emit the same list
C22_FirstLinks ==
  pc = "compared" =>
    /\ \A k \in DOMAIN run1.result : run1.result[k] = FirstLinks(rows, k)
    /\ run2.result = run1.result

\* the same for live_collect.build_items alone
LC_FirstLinks == IsLC => C22_FirstLinks

(***************************************************************************)
(* The reasons of the items of entity_first_collector.main                 *)
(***************************************************************************)
\* the entries of xs that no earlier entry equals, in the order of xs, up
\* to n of them
FirstOccurrences(xs, n) ==
  Take(AtIndices(xs, {i \in 1..Len(xs) : \A j \in 1..(i - 1) : xs[j] # xs[i]}),
       n)

\* C23: the reasons emitted for a record are its justification strings
\* without duplicates, first occurrences kept in their order, at most the
\* cap of them; no reason appears twice in an item
C23_Reasons ==
  (IsEF /\ pc \in {"score", "done"}) =>
    \A i \in 1..Len(items) :
      /\ items[i].issue_reason =
           FirstOccurrences(pool[items[i].entity_key].issue_reasons, ReasonCut)
      /\ NoRepeat(items[i].issue_reason)
      /\ Len(items[i].issue_reason) <= ReasonCut

\* an item of a record with three justifications, the first of them given
\* twice, has been written with two reasons
C23_Witness ==
  /\ IsEF /\ pc = "done"
  /\ \E i \in 1..Len(items) :
       LET rs == pool[items[i].entity_key].issue_reasons IN
       /\ Len(rs) = 3 /\ rs[1] = rs[2] /\ rs[1] # rs[3]
       /\ items[i].issue_reason = <<rs[1], rs[3]>>

(***************************************************************************)
(* live_collect.load_category_rules                                        *)
(***************************************************************************)
\* the file at CATEGORY_RULES_PATH: whether path.exists(), and what
\* json.loads(path.read_text()) does: read_text raises ("unreadable"),
\* json.loads raises ("garbage"), or the value rules is returned ("json")
RulesFile(exists, text, rules) ==
  [exists |-> exists, text |-> text, rules |-> rules]
RulesFiles ==
  {RulesFile(FALSE, "unreadable", NoRules)}
    \cup {RulesFile(TRUE, t, NoRules) : t \in {"unreadable", "garbage"}}
    \cup {RulesFile(TRUE, "json", r) : r \in {NoRules, RulesA, RulesTwo}}

\* load_category_rules with the rules of RulesA as the value of the except
\* branch
load_category_rules_preset(file) ==
  IF ~file.exists THEN NoRules
  ELSE IF file.text = "json" THEN file.rules
  ELSE RulesA

load_category_rules(file) ==
  IF ~file.exists THEN NoRules
  ELSE IF file.text = "json" THEN file.rules
  ELSE NoRules

\* main, lines 676-690, for the file and a name: the rules main holds, the
\* STOPWORDS after the update, and the category of the name
LoadedRun(file, name) ==
  LET Loaded(rules) ==
        [category_rules |-> rules,
         stopwords |-> StopWordsOf(rules),
         category |-> detect_category(name, rules)]
  IN Loaded(load_category_rules(file))

Call_load_category_rules ==
  /\ prog = "load_category_rules"
  /\ CallReturn(LoadedRun(run1.input[1], run1.input[2]))

\* the file is absent or cannot be parsed
NotParsed(file) == ~file.exists \/ file.text # "json"

\* C24: when the category-rules file is absent or cannot be parsed,
\* load_category_rules returns the empty rule set, every name is of the
\* default category and STOPWORDS gets no noise word
C24_EmptyRules ==
  (Returned("load_category_rules") /\ NotParsed(run1.input[1])) =>
    /\ run1.result.category_rules = [categories |-> <<>>, noise_words |-> {}]
    /\ run1.result.category = Gita
    /\ run1.result.stopwords = STOPWORDS

\* a file that exists and is no JSON has given the empty rules, and a name
\* that the rules of RulesA call an appliance is of the default category
C24_Witness ==
  /\ Returned("load_category_rules")
  /\ run1.input = <<RulesFile(TRUE, "garbage", NoRules), R_Dyson>>
  /\ detect_category(R_Dyson, RulesA) # Gita
  /\ run1.result.category = Gita

(***************************************************************************)
(* The mention counts of entity_first_collector.main and the filter of     *)
(* step 4                                                                  *)
(***************************************************************************)
\* one iteration of  for k,obj in pool.items()  of step 4
ScoreIteration == IsEF /\ pc = "score" /\ ki <= Len(order) /\ ki' = ki + 1

\* C25: after every step of entity_first_collector.main every record of the
\* pool has mention_count_24h = 2 * (the sum of its source_mix) and at least
\* 2, so that the filter mention_count_24h < 2 of step 4 skips no record
C25_NeverFiltered ==
  [][IsEF =>
       /\ \A k \in DOMAIN pool' :
            /\ pool'[k].mention_count_24h = 2 * Total(pool'[k].source_mix)
            /\ pool'[k].mention_count_24h >= 2
       /\ ScoreIteration => Len(items') = Len(items) + 1]_vars

\* step 4 has gone over a pool of two records and holds an item of each
C25_Witness ==
  /\ IsEF /\ pc = "score"
  /\ Len(order) = 2 /\ ki > Len(order)
  /\ {items[i].entity_key : i \in 1..Len(items)} = DOMAIN pool

(***************************************************************************)
(* The model names of the pool of entity_first_collector.main              *)
(***************************************************************************)
HasDigit(model) == \E i \in 1..Len(model) : IsDigit(model[i])

\* the values of normalize_beauty_model that are names of a line
LineNames == {BEAUTY_LINE_KEYS[i] : i \in 1..Len(BEAUTY_LINE_KEYS)}

\* C26: every model_name of the pool of entity_first_collector.main holds a
\* digit; the line names that normalize_beauty_model returns (none holds a
\* digit) are rejected by valid_entity, and a shopping row whose model is
\* such a name makes no record
C26_ModelHasDigit ==
  /\ IsEF => \A k \in DOMAIN pool : HasDigit(pool[k].model_name)
  /\ IsEF => \A link \in {"", "u1"} :
       ShopStep([pool |-> pool, order |-> order],
                [cat |-> SHOP_CATEGORIES[1], title |-> T_HeraCushion,
                 link |-> link]) = [pool |-> pool, order |-> order]
  /\ (Returned("valid_entity") /\ run1.input[2] \in LineNames) =>
       run1.result = FALSE

\* valid_entity has rejected the brand and line name of a cushion title
C26_Witness ==
  /\ Returned("valid_entity")
  /\ run1.input = <<ShopCandidate(T_HeraCushion).brand,
                    ShopCandidate(T_HeraCushion).model>>
  /\ run1.input[1] # <<>> /\ run1.input[2] \in LineNames
  /\ run1.result = FALSE

(***************************************************************************)
(* What the news pass and the YouTube pass of entity_first_collector.main  *)
(* change                                                                  *)
(***************************************************************************)
\* the record new is the record old with the same names, no lower count,
\* no lower source_mix and nothing taken from its evidence
Enriched(old, new) ==
  /\ new.brand = old.brand
  /\ new.model_name = old.model_name
  /\ new.canonical_product_name = old.canonical_product_name
  /\ new.mention_count_24h >= old.mention_count_24h
  /\ \A s \in DOMAIN old.source_mix :
       s \in DOMAIN new.source_mix /\ new.source_mix[s] >= old.source_mix[s]
  /\ old.evidence_links \subseteq new.evidence_links
  /\ Len(new.issue_reasons) >= Len(old.issue_reasons)
  /\ SubSeq(new.issue_reasons, 1, Len(old.issue_reasons)) = old.issue_reasons

\* the brand and the model of the key k both occur in the text of the title
OccursInTitle(k, title) ==
  /\ In(SplitKey(k)[1], normalize(title))
  /\ In(SplitKey(k)[2], normalize(title))

\* the rows that change the pool when the pass meets them for the key k
\* are rows in whose title the brand and the model of k occur
OnlyMatchingRows(k) ==
  LET P == [pool |-> pool, order |-> order] IN
  \A title \in Titles, link \in {"", "u1"} :
    /\ (pc = "news" /\ NewsStep(P, k, [title |-> title, link |-> link]) # P)
         => OccursInTitle(k, title)
    /\ (pc = "yt" /\ YtStep(P, k, [title |-> title, vid |-> link]) # P)
         => OccursInTitle(k, title)

\* C27: the news pass and the YouTube pass add and remove no key and leave
\* brand, model_name and canonical_product_name of every record as they
\* are; they raise the count and source_mix and add evidence only for the
\* key they search for, when its brand and model both occur in the title.
\* Keys are made by the shopping pass and the celebrity pass only
C27_EnrichOnly ==
  [][IsEF =>
       /\ pc \in {"news", "yt"} =>
            /\ DOMAIN pool' = DOMAIN pool /\ order' = order
            /\ \A k \in DOMAIN pool :
                 /\ Enriched(pool[k], pool'[k])
                 /\ pool'[k] # pool[k] => (ki <= Len(keys) /\ k = keys[ki])
            /\ ki <= Len(keys) => OnlyMatchingRows(keys[ki])
       /\ DOMAIN pool' # DOMAIN pool => pc \in {"shop", "celeb"}]_vars

\* the YouTube pass runs over a record that the news pass has raised, and
\* has raised it too
C27_Witness ==
  /\ IsEF /\ pc = "yt"
  /\ \E k \in DOMAIN pool :
       /\ {"naver_news", "youtube"} \subseteq DOMAIN pool[k].source_mix
       /\ pool[k].model_name = SplitKey(k)[2]

(***************************************************************************)
(* orchestrator.py: run, the seven stages of one run, and mock_publish.    *)
(* prog = "orchestrator"; pc is the stage run is about to enter; items is  *)
(* the local list the stages hand on (items, verified, drafts, reviews);   *)
(* run1.input is args and run1.result the manifest; run2 is what the run   *)
(* leaves outside the process: the stages of events.jsonl, the content of  *)
(* data/published/publish_reports.json with the number of times it was     *)
(* written, the value mock_publish returned and manifest.json.             *)
(* Timestamps, run ids and post ids are left out: no stage reads them.     *)
(***************************************************************************)
STAGES ==
  <<"COLLECTING_TRENDS", "VALIDATING_CPA", "WRITING_DRAFTS", "QA_REVIEW",
    "ADMIN_APPROVAL_PENDING", "READY_TO_PUBLISH", "PUBLISHED">>

\* the return value None, and a returned list
None == [none |-> TRUE, out |-> <<>>]
Some(out) == [none |-> FALSE, out |-> out]

\* the items of mock_collect
mock_collect ==
  <<[item_name |-> "handy_cleaner", score |-> 84],
    [item_name |-> "power_bank", score |-> 79]>>

\* item-i, the slug of the i-th item
SlugOf(i) == IF i = 1 THEN "item-1" ELSE IF i = 2 THEN "item-2" ELSE "item-3"

mock_verify(its) ==
  [i \in 1..Len(its) |->
     [item_name |-> its[i].item_name, score |-> its[i].score,
      item_slug |-> SlugOf(i), coupang_available |-> TRUE]]

mock_write_drafts(its) ==
  [i \in 1..Len(its) |-> [item_slug |-> its[i].item_slug]]

mock_review(drafts) ==
  [i \in 1..Len(drafts) |->
     [item_slug |-> drafts[i].item_slug,
      qa_status |-> "pass_with_minor_edits"]]

\* the reports of the reviews that passed
PublishOut(review_reports) ==
  LET Passed == {i \in 1..Len(review_reports) :
                   review_reports[i].qa_status
                     \in {"pass", "pass_with_minor_edits"}}
  IN  [r \in 1..Cardinality(Passed) |->
         LET i == CHOOSE j \in Passed :
                    Cardinality({h \in Passed : h < j}) = r - 1
         IN  [item_slug |-> review_reports[i].item_slug,
              status |-> "success"]]

\* mock_publish without the test of the approval
mock_publish_unguarded(review_reports, require_approval, approved) ==
  Some(PublishOut(review_reports))

\* the value mock_publish returns
mock_publish(review_reports, require_approval, approved) ==
  IF require_approval /\ ~approved
  THEN None
  ELSE Some(PublishOut(review_reports))

\* the files after mock_publish returned ret: write_json only when a list
\* was built
AfterPublish(fs, ret) ==
  IF ret.none
  THEN [fs EXCEPT !.published = ret]
  ELSE [fs EXCEPT !.published = ret, !.publish_reports = ret.out,
                  !.writes = @ + 1]

\* what a run starts from: the report of an earlier run may be on the disk
OldReport == <<[item_slug |-> "item-1", status |-> "success"]>>
NoFiles ==
  [events |-> <<>>, publish_reports |-> <<>>, writes |-> 0,
   published |-> None, manifest_json |-> <<>>]
StartFiles == {NoFiles, [NoFiles EXCEPT !.publish_reports = OldReport]}

Modes == {"mock", "live"}
OrchArgs == [mode : Modes, admin_approved : BOOLEAN]

\* review reports handed to mock_publish directly
QaStatuses == {"pass", "pass_with_minor_edits", "fail"}
MaxReviews == 2
ReviewLists ==
  UNION {[1..n -> [item_slug : {"item-1"}, qa_status : QaStatuses]] :
           n \in 0..MaxReviews}
PublishArgs ==
  [review_reports : ReviewLists, require_approval : BOOLEAN,
   approved : BOOLEAN]

InitOrch ==
  /\ prog = "orchestrator"
  /\ \/ /\ pc = STAGES[1]
        /\ \E a \in OrchArgs :
             run1 = [input |-> a, ties |-> {},
                     result |-> [mode |-> a.mode,
                                 admin_approved |-> a.admin_approved,
                                 status |-> "running", stages |-> <<>>]]
     \/ /\ pc = "call"
        /\ \E a \in PublishArgs :
             run1 = [input |-> a, ties |-> {}, result |-> None]
  /\ run2 \in StartFiles
  /\ items = <<>>
  /\ errors = <<>>
  /\ top_n = 0
  /\ yk = FALSE
  /\ pool = EmptyPool
  /\ order = <<>>
  /\ keys = <<>>
  /\ ki = 1
  /\ ci = 1
  /\ cphase = "naver_news"
  /\ nrows = 0
  /\ rows = <<>>
  /\ category_rules = NoRules
  /\ naver_scores = EmptyNaver

\* event(run_dir, stage, ...) and manifest["stages"].append(entry), then on
\* to the stage nxt with the local list its
StageDone(stage, entry, nxt, its) ==
  /\ pc = stage
  /\ run2' = [run2 EXCEPT !.events = Append(@, stage)]
  /\ run1' = [run1 EXCEPT !.result.stages = Append(@, entry)]
  /\ items' = its
  /\ pc' = nxt
  /\ UNCHANGED <<errors, prog, top_n, yk, pool, order, keys, ki, ci, cphase,
                 nrows, rows, category_rules, naver_scores>>

IsMock == run1.input.mode = "mock"

\* Stage 1
Orch_Collect ==
  /\ prog = "orchestrator"
  /\ LET its == IF IsMock THEN mock_collect ELSE <<>>
     IN  StageDone(STAGES[1],
                   [stage |-> STAGES[1], status |-> "done",
                    count |-> Len(its)], STAGES[2], its)

\* Stage 2
Orch_Verify ==
  /\ prog = "orchestrator"
  /\ LET its == IF IsMock THEN mock_verify(items) ELSE <<>>
     IN  StageDone(STAGES[2],
                   [stage |-> STAGES[2], status |-> "done",
                    count |-> Len(its)], STAGES[3], its)

\* Stage 3
Orch_Drafts ==
  /\ prog = "orchestrator"
  /\ LET its == IF IsMock THEN mock_write_drafts(items) ELSE <<>>
     IN  StageDone(STAGES[3],
                   [stage |-> STAGES[3], status |-> "done",
                    count |-> Len(its)], STAGES[4], its)

\* Stage 4
Orch_Review ==
  /\ prog = "orchestrator"
  /\ LET its == IF IsMock THEN mock_review(items) ELSE <<>>
     IN  StageDone(STAGES[4],
                   [stage |-> STAGES[4], status |-> "done",
                    count |-> Len(its)], STAGES[5], its)

\* Stage 5
Orch_Approval ==
  /\ prog = "orchestrator"
  /\ StageDone(STAGES[5],
               [stage |-> STAGES[5], status |-> "done",
                approved |-> run1.input.admin_approved], STAGES[6], items)

\* Stage 6 with the approval
Orch_Ready ==
  /\ prog = "orchestrator"
  /\ pc = STAGES[6]
  /\ run1.input.admin_approved
  /\ StageDone(STAGES[6], [stage |-> STAGES[6], status |-> "done"],
               STAGES[7], items)

\* Stage 6 without the approval: the else branch of run
Orch_Blocked ==
  /\ prog = "orchestrator"
  /\ pc = STAGES[6]
  /\ ~run1.input.admin_approved
  /\ run2' = [run2 EXCEPT !.events = Append(@, STAGES[6])]
  /\ run1' = [run1 EXCEPT
                !.result.stages =
                   Append(@, [stage |-> STAGES[6], status |-> "blocked"]),
                !.result.status = "awaiting_admin_approval"]
  /\ pc' = "finish"
  /\ UNCHANGED <<errors, prog, top_n, yk, pool, order, keys, ki, ci, cphase,
                 nrows, items, rows, category_rules, naver_scores>>

\* Stage 7: mock_publish(reviews, require_approval=True, approved=True)
Orch_Publish ==
  /\ prog = "orchestrator"
  /\ pc = STAGES[7]
  /\ LET ret == mock_publish(items, TRUE, TRUE)
     IN  /\ run2' = AfterPublish([run2 EXCEPT !.events = Append(@, STAGES[7])],
                                 ret)
         /\ run1' = [run1 EXCEPT
                       !.result.stages =
                          Append(@, [stage |-> STAGES[7], status |-> "done",
                                     count |-> Len(ret.out)]),
                       !.result.status = "published"]
  /\ pc' = "finish"
  /\ UNCHANGED <<errors, prog, top_n, yk, pool, order, keys, ki, ci, cphase,
                 nrows, items, rows, category_rules, naver_scores>>

\* write_json(run_dir / "manifest.json", manifest)
Orch_Finish ==
  /\ prog = "orchestrator"
  /\ pc = "finish"
  /\ run2' = [run2 EXCEPT !.manifest_json = <<run1.result>>]
  /\ pc' = "done"
  /\ UNCHANGED <<errors, run1, prog, top_n, yk, pool, order, keys, ki, ci,
                 cphase, nrows, items, rows, category_rules, naver_scores>>

\* a call of mock_publish on its own
Call_mock_publish ==
  /\ prog = "orchestrator"
  /\ pc = "call"
  /\ LET a == run1.input
         ret == mock_publish(a.review_reports, a.require_approval, a.approved)
     IN  /\ run1' = [run1 EXCEPT !.result = ret]
         /\ run2' = AfterPublish(run2, ret)
  /\ pc' = "returned"
  /\ UNCHANGED <<errors, prog, top_n, yk, pool, order, keys, ki, ci, cphase,
                 nrows, items, rows, category_rules, naver_scores>>

NextOrch ==
  \/ Orch_Collect \/ Orch_Verify \/ Orch_Drafts \/ Orch_Review
  \/ Orch_Approval \/ Orch_Ready \/ Orch_Blocked \/ Orch_Publish
  \/ Orch_Finish \/ Call_mock_publish
SpecOrch == InitOrch /\ [][NextOrch]_vars

\* the stages of the entries of a manifest
StagesOf(m) == [i \in 1..Len(m.stages) |-> m.stages[i].stage]

\* the run of orchestrator.run, at any point of it
InRun == prog = "orchestrator" /\ pc \notin {"call", "returned"}
RunEnded == prog = "orchestrator" /\ pc = "done"

\* the entries are a prefix of STAGES
InStagesOrder ==
  LET s == StagesOf(run1.result)
  IN  Len(s) <= Len(STAGES) /\ s = SubSeq(STAGES, 1, Len(s))

\* nothing of the publishing has happened
NotPublished ==
  /\ run2.writes = 0
  /\ run2.published = None
  /\ STAGES[7] \notin {run2.events[i] : i \in 1..Len(run2.events)}
  /\ \A i \in 1..Len(run1.result.stages) :
       run1.result.stages[i].stage # STAGES[7]
  /\ run1.result.status # "published"

\* C28: in orchestrator.run the stage entries are appended in the order of
\* STAGES, each at most once; without admin_approved nothing is published at
\* any point of the run (no call of mock_publish, no PUBLISHED entry or
\* event, no write of the publish report, status never 'published') and the
\* run ends with READY_TO_PUBLISH 'blocked' as its last entry and the status
\* 'awaiting_admin_approval'; with admin_approved it ends with all seven
\* entries, the report written once and the status 'published'; and
\* mock_publish called with require_approval and without approved returns
\* None and writes nothing.
C28_PublishAfterApproval ==
  /\ InRun =>
       /\ InStagesOrder
       /\ ~run1.input.admin_approved => NotPublished
       /\ RunEnded /\ ~run1.input.admin_approved =>
            /\ Len(run1.result.stages) = 6
            /\ run1.result.stages[6] =
                 [stage |-> STAGES[6], status |-> "blocked"]
            /\ run1.result.status = "awaiting_admin_approval"
            /\ run2.manifest_json = <<run1.result>>
            /\ run2.publish_reports \in {<<>>, OldReport}
       /\ RunEnded /\ run1.input.admin_approved =>
            /\ Len(run1.result.stages) = 7
            /\ run1.result.stages[6] = [stage |-> STAGES[6], status |-> "done"]
            /\ run1.result.status = "published"
            /\ ~run2.published.none
            /\ run2.writes = 1
            /\ run2.manifest_json = <<run1.result>>
       /\ run1.result.status = "published" =>
            run1.input.admin_approved /\ ~run2.published.none
  /\ Returned("orchestrator") =>
       (run1.input.require_approval /\ ~run1.input.approved =>
          /\ run1.result = None
          /\ run2.writes = 0
          /\ run2.publish_reports \in {<<>>, OldReport})

\* a mock run without the approval has ended, the report of an earlier run
\* on the disk
C28_Witness ==
  /\ RunEnded
  /\ ~run1.input.admin_approved
  /\ run1.input.mode = "mock"
  /\ run2.publish_reports = OldReport
\* mock_publish was refused a list with a passed review
C28_Refused ==
  /\ Returned("orchestrator")
  /\ run1.input.require_approval /\ ~run1.input.approved
  /\ \E i \in 1..Len(run1.input.review_reports) :
       run1.input.review_reports[i].qa_status = "pass"
  /\ run2.publish_reports = OldReport

(***************************************************************************)
(* The final list of live_collect.main                                     *)
(***************************************************************************)
\* no two items of its have the same item_name
DistinctNames(its) ==
  \A i, j \in 1..Len(its) : its[i].item_name = its[j].item_name => i = j

\* the list its begins with the list first
BeginsWith(its, first) ==
  Len(first) <= Len(its) /\ SubSeq(its, 1, Len(first)) = first

\* a step of the refill pass, and a step that ends main
RefillStep == IsLC /\ pc = "refill" /\ pc' = "fallback"
FinalStep == IsLC /\ pc = "fallback" /\ pc' = "done"

\* C29: for every top_n >= 0 the final item list of live_collect.main has
\* at most top_n items and no two items of the same item_name, whether it
\* comes from build_items, the refill pass or coarse_fallback_items; and the
\* refill pass keeps the items of the first build_items call where they are,
\* appending behind them.
C29_FinalList ==
  [][/\ FinalStep => Len(items') <= top_n /\ DistinctNames(items')
     /\ RefillStep => BeginsWith(items', items)]_vars

\* the refill pass has filled a list of one item to top_n = 2 and main has
\* ended with it
C29_Witness ==
  /\ IsLC /\ pc = "done"
  /\ top_n = 2 /\ Len(items) = 2
  /\ \A ups \in SUBSET DOMAIN pool :
       Len(BuildEmit([pool |-> pool, order |-> order], top_n,
                     naver_scores, ups)) = 1

(***************************************************************************)
(* The calls of single functions as one specification                      *)
(***************************************************************************)
InitCall ==
  \/ CallInit("extract_model", ExtractTexts)
  \/ CallInit("detect_brand", BrandTexts)
  \/ CallInit("live_collect.detect_brand", BrandTexts)
  \/ CallInit("detect_category", CategoryInputs)
  \/ CallInit("normalize", NormTexts)
  \/ CallInit("normalize_text", NormTexts)
  \/ CallInit("build_entity_candidates", CandTitles \X CandNames)
  \/ CallInit("category_match_score", ScoreInputs)
  \/ CallInit("extract_category_entity_candidates", CategoryCandInputs)
  \/ CallInit("load_category_rules", RulesFiles \X LcAllTitles)
NextCall ==
  \/ Call_extract_model
  \/ Call_detect_brand
  \/ Call_lc_detect_brand \/ Call_lc_detect_brand_again
  \/ Call_detect_category
  \/ Call_normalize \/ Call_normalize_text
  \/ Call_build_entity_candidates
  \/ Call_category_match_score
  \/ Call_extract_category_entity_candidates
  \/ Call_load_category_rules
SpecCall == InitCall /\ [][NextCall]_vars

====
